---- MODULE Spec2Model ----
(***************************************************************************)
(* A model of the Money class of @dintero/money (src/src/index.ts) and of  *)
(* the big.js decimal arithmetic it is built on.                           *)
(*                                                                         *)
(* A decimal value (a Big) is the record [n, e, d, eps] that stands for    *)
(*        (n + eps * 10^-20) / (d * 10^e)                                  *)
(* It is a decimal of two limbs, so that a value of 20 decimal places fits *)
(* the integers of the model checker.  A short decimal has d = 1 and       *)
(* eps = 0 and is kept normalised (no trailing zero in n while e > 0), the *)
(* way big.js keeps its digit array.  Only a quotient has d > 1: big.js    *)
(* cuts a quotient at Big.DP = 20 decimal places, and eps is what that cut *)
(* added to the exact quotient, in units of 10^-20 / d.  When such a value *)
(* is rounded to a scale far above 10^-20, the cut matters only when the   *)
(* value without it lies on a rounding boundary, and there only by its     *)
(* sign; when it is rounded to a scale near 20 places, eps is counted.     *)
(***************************************************************************)
EXTENDS Integers, Sequences, FiniteSets, TLC

VARIABLES heap, last

vars == <<heap, last>>

(***************************************************************************)
(* Bounds of the model.                                                    *)
(***************************************************************************)
\* bits in the significand of the native number of the model (an IEEE 754
\* double has 53)
SigBits == 8

MaxHeap == 2

MaxUnits == 12

MaxWeight == 2

MaxParts == 3

(***************************************************************************)
(* Integer helpers.                                                        *)
(***************************************************************************)
Abs(x) == IF x < 0 THEN -x ELSE x

Sign(x) == IF x < 0 THEN -1 ELSE IF x > 0 THEN 1 ELSE 0

Max(a, b) == IF a >= b THEN a ELSE b

RECURSIVE Pow10(_)
Pow10(k) == IF k <= 0 THEN 1 ELSE 10 * Pow10(k - 1)

RECURSIVE Pow10Mod(_, _)
Pow10Mod(k, m) == IF k <= 0 THEN 1 % m ELSE (10 * Pow10Mod(k - 1, m)) % m

(***************************************************************************)
(* big.js.  Rounding modes: 0 towards zero, 1 half away from zero,         *)
(* 2 half to even, 3 away from zero.  Big.RM = 1 and Big.DP = 20 are the   *)
(* library defaults, which index.ts never changes.                         *)
(***************************************************************************)
BigRM == 1

BigDP == 20

None == {}

Some(x) == {x}

Get(opt) == CHOOSE x \in opt : TRUE

OrElse(opt, dflt) == IF opt = None THEN dflt ELSE Get(opt)

RECURSIVE Normalise(_, _)
Normalise(n, e) ==
    IF n = 0 THEN [n |-> 0, e |-> 0, d |-> 1, eps |-> 0]
    ELSE IF e > 0 /\ n % 10 = 0 THEN Normalise(n \div 10, e - 1)
    ELSE [n |-> n, e |-> e, d |-> 1, eps |-> 0]

\* new Big(x) for a decimal literal n * 10^-e (a number is parsed from its
\* shortest decimal string, so 8.165 is the decimal 8.165)
Big(n, e) == Normalise(n, e)

IsExact(x) == x.d = 1 /\ x.eps = 0

\* the integer a * 10^(e - a.e) of an exact decimal a with a.e <= e
Scaled(a, e) == a.n * Pow10(e - a.e)

\* (Euclid's algorithm; the two numbers are held as a pair so that each step
\* works on their values, @)
RECURSIVE Gcd(_, _)
Gcd(a, b) ==
    [[at |-> <<a, b>>] EXCEPT
        !.at = IF @[2] = 0 THEN @[1] ELSE Gcd(@[2], @[1] % @[2])].at

\* a value the two limbs cannot hold: its evaluation stops the check
Unrepresentable(x) == CHOOSE y \in {} : y = x

\* digits of the high limb that an operation aligns by scaling; a wider gap
\* between two exponents moves the smaller operand into the low limb
HiPlaces == 9

RECURSIVE Strip(_, _, _, _)
Strip(n, e, d, eps) ==
    IF e > 0 /\ n % 10 = 0 /\ eps % 10 = 0
    THEN Strip(n \div 10, e - 1, d, eps \div 10)
    ELSE [n |-> n, e |-> e, d |-> d, eps |-> eps]

\* the one record of a value: lowest terms, no trailing zeros, and a plain
\* decimal whose high limb is empty written as n / 10^e
Canon(n, e, d, eps) ==
    LET g == Gcd(Gcd(Abs(n), Abs(eps)), d)
    IN  IF n = 0 /\ eps = 0 THEN Normalise(0, 0)
        ELSE IF n = 0 /\ d = g THEN Normalise(eps \div g, e + BigDP)
        ELSE Strip(n \div g, e, d \div g, eps \div g)

\* the two numerators of x over d * 10^e
Aligned(x, e) ==
    IF x.e <= e
    THEN [n |-> x.n * Pow10(e - x.e), eps |-> x.eps * Pow10(e - x.e)]
    ELSE IF x.d = 1 /\ x.eps = 0 /\ x.e - e <= BigDP
    THEN [n |-> 0, eps |-> x.n * Pow10(BigDP - (x.e - e))]
    ELSE Unrepresentable(x)

BigSign(a) == IF a.n # 0 THEN Sign(a.n) ELSE Sign(a.eps)

BigNeg(a) == [a EXCEPT !.n = -a.n, !.eps = -a.eps]

\* (a sum that adds the digits without aligning the decimal points)
BigPlusUnaligned(a, b) == Normalise(a.n + b.n, Max(a.e, b.e))

BigPlus(a, b) ==
    IF BigSign(a) = 0 THEN b
    ELSE IF BigSign(b) = 0 THEN a
    ELSE LET e == IF Abs(a.e - b.e) <= HiPlaces THEN Max(a.e, b.e)
                  ELSE IF a.e < b.e THEN a.e ELSE b.e
             x == Aligned(a, e)
             y == Aligned(b, e)
         IN  Canon(x.n * b.d + y.n * a.d, e, a.d * b.d,
                   x.eps * b.d + y.eps * a.d)

BigMinus(a, b) == BigPlus(a, BigNeg(b))

BigAbs(a) == IF BigSign(a) < 0 THEN BigNeg(a) ELSE a

\* the cmp of two decimals: 1, 0 or -1
BigCmp(a, b) == BigSign(BigMinus(a, b))

\* exact product, but for the product of the low limbs (of two quotients)
BigMul(a, b) ==
    IF BigSign(a) = 0 \/ BigSign(b) = 0 THEN Normalise(0, 0)
    ELSE Canon(a.n * b.n, a.e + b.e, a.d * b.d, a.n * b.eps + b.n * a.eps)

\* the decimal q + r / den (scaled by 10^-e) of a quotient that ends within
\* BigDP places, by long division
RECURSIVE Terminating(_, _, _, _)
Terminating(q, r, den, e) ==
    IF r = 0 THEN Normalise(q, e)
    ELSE Terminating(10 * q + (10 * r) \div den, (10 * r) % den, den, e + 1)

\* 10 ** k as a Big
BigPow10(k) ==
    IF k <= HiPlaces THEN Big(Pow10(k), 0)
    ELSE [n |-> 1, e |-> -k, d |-> 1, eps |-> 0]

\* a / b for short decimals, b # 0, cut at BigDP places with mode BigRM
BigDivShort(a, b) ==
    LET num0 == Abs(a.n) * Pow10(Max(b.e - a.e, 0))
        den0 == Abs(b.n) * Pow10(Max(a.e - b.e, 0))
        g    == Gcd(num0, den0)
        num  == num0 \div g
        den  == den0 \div g
        sgn  == Sign(a.n) * Sign(b.n)
        rem  == ((num % den) * Pow10Mod(BigDP, den)) % den
        up   == IF 2 * rem >= den THEN den - rem ELSE -rem
    IN  IF a.n = 0 THEN Normalise(0, 0)
        ELSE IF rem = 0
        THEN LET t == Terminating(num \div den, num % den, den, 0)
             IN  [t EXCEPT !.n = sgn * t.n]
        ELSE [n |-> sgn * num, e |-> 0, d |-> den, eps |-> sgn * up]

\* num / den (den > 0) moved by eps, rounded to an integer with mode rm
RoundQ(num, den, eps, rm) ==
    LET sgn == Sign(num)
        q   == Abs(num) \div den
        r   == Abs(num) % den
        out == eps * sgn   \* > 0: the magnitude is a little above q + r/den
        mag == CASE rm = 0 -> IF r = 0 /\ out < 0 THEN q - 1 ELSE q
                 [] rm = 3 -> IF r > 0 \/ out > 0 THEN q + 1 ELSE q
                 [] rm = 1 -> IF 2 * r > den \/ (2 * r = den /\ out >= 0)
                              THEN q + 1 ELSE q
                 [] rm = 2 -> IF 2 * r > den \/ (2 * r = den /\ out > 0)
                                 \/ (2 * r = den /\ out = 0 /\ q % 2 = 1)
                              THEN q + 1 ELSE q
    IN  sgn * mag

\* x rounded at dp places near BigDP: with D = d * 10^(BigDP + e - dp) the
\* value is (Q + r / D) * 10^-dp, and the remainder r is found modulo D
BigRoundLow(x, dp, rm) ==
    LET s   == BigSign(x)
        D   == x.d * Pow10(BigDP + x.e - dp)
        N(M) == (((s * x.n) % M) * Pow10Mod(BigDP, M) + s * x.eps) % M
        r   == N(D)
        odd == N(2 * D) >= D
        k   == CASE rm = 0 -> 0
                 [] rm = 3 -> IF r > 0 THEN 1 ELSE 0
                 [] rm = 1 -> IF 2 * r >= D THEN 1 ELSE 0
                 [] rm = 2 -> IF 2 * r > D \/ (2 * r = D /\ odd) THEN 1 ELSE 0
    IN  Canon(x.n, x.e, x.d, x.eps + s * (k * D - r))

\* x.round(dp, rm); a value that ends within BigDP places past its exponent
\* has nothing to round beyond them
BigRound(x, dp, rm) ==
    IF IsExact(x) /\ x.e <= dp THEN x
    ELSE IF dp - x.e <= HiPlaces
    THEN LET num == x.n * Pow10(Max(dp - x.e, 0))
             den == x.d * Pow10(Max(x.e - dp, 0))
         IN  Normalise(RoundQ(num, den, x.eps, rm), dp)
    ELSE IF x.d = 1 /\ dp >= x.e + BigDP THEN x
    ELSE IF dp <= x.e + BigDP THEN BigRoundLow(x, dp, rm)
    ELSE IF BigRoundLow(x, x.e + BigDP, 0) = x THEN x
    ELSE Unrepresentable(x)

\* a / b, b # 0; a division by a power of ten of more than HiPlaces digits
\* moves the decimal point and cuts at BigDP places
BigDiv(a, b) ==
    IF BigSign(a) = 0 THEN Normalise(0, 0)
    ELSE IF ~(IsExact(a) /\ IsExact(b)) THEN Unrepresentable(a)
    ELSE IF b.e >= 0 THEN BigDivShort(a, b)
    ELSE IF Abs(b.n) = 1
    THEN BigRound(Canon(Sign(b.n) * a.n, a.e - b.e, 1, 0), BigDP, BigRM)
    ELSE Unrepresentable(b)

\* x.toFixed(dp) of an exact decimal with x.e <= dp: sign, integer digits,
\* point, dp fraction digits (zero padded); a zero prints without sign
Digit(k) == <<"0", "1", "2", "3", "4", "5", "6", "7", "8", "9">>[k + 1]

RECURSIVE NatToString(_)
NatToString(k) ==
    IF k < 10 THEN Digit(k) ELSE NatToString(k \div 10) \o Digit(k % 10)

RECURSIVE FracToString(_, _)
FracToString(k, width) ==
    IF width = 0 THEN ""
    ELSE FracToString(k \div 10, width - 1) \o Digit(k % 10)

RECURSIVE Zeros(_)
Zeros(k) == IF k <= 0 THEN "" ELSE "0" \o Zeros(k - 1)

BigToFixed(x, dp) ==
    LET y    == BigRound(x, dp, BigRM)
        mag  == Abs(y.n)
        int  == mag \div Pow10(y.e)
        frac == mag % Pow10(y.e)
    IN  (IF y.n < 0 THEN "-" ELSE "")
        \o NatToString(int)
        \o (IF dp > 0
            THEN "." \o FracToString(frac, y.e) \o Zeros(dp - y.e)
            ELSE "")

(***************************************************************************)
(* The native number.  A number is [s, m, k], the value s * m * 2^k with   *)
(* 2^(SigBits-1) <= m < 2^SigBits, or zero (m = 0); the exponent range of  *)
(* a double is far from the magnitudes of the model.                       *)
(***************************************************************************)
RECURSIVE Pow2(_)
Pow2(k) == IF k <= 0 THEN 1 ELSE 2 * Pow2(k - 1)

\* the integer nearest to num / den (num >= 0, den > 0), a tie to the even one
RoundHalfEven(num, den) ==
    LET q == num \div den
        r == num % den
    IN  IF 2 * r > den \/ (2 * r = den /\ q % 2 = 1) THEN q + 1 ELSE q

\* the significand and exponent of the number nearest to num / den * 2^k
RECURSIVE ToBinary(_, _, _)
ToBinary(num, den, k) ==
    IF num < Pow2(SigBits - 1) * den THEN ToBinary(2 * num, den, k - 1)
    ELSE IF num >= Pow2(SigBits) * den THEN ToBinary(num, 2 * den, k + 1)
    ELSE LET m == RoundHalfEven(num, den)
         IN  IF m = Pow2(SigBits) THEN [m |-> Pow2(SigBits - 1), k |-> k + 1]
             ELSE [m |-> m, k |-> k]

\* Number(str) of the decimal string that denotes the exact decimal x: the
\* nearest number, a tie to the even significand
Number(x) ==
    IF x.n = 0 THEN [s |-> 0, m |-> 0, k |-> 0]
    ELSE [s |-> Sign(x.n)] @@ ToBinary(Abs(x.n), Pow10(x.e), 0)

\* the decimals c * 10^-j next to the magnitude of num (floor and ceiling)
\* that Number reads back as num, nearest first
Candidates(num, j) ==
    LET top == num.m * Pow2(num.k) * Pow10(j)
        bot == Pow2(-num.k) * Pow10(-j)
        lo  == top \div bot
        r   == top % bot
        dec(c) == IF j >= 0 THEN Big(c, j) ELSE Big(c * Pow10(-j), 0)
        hiFirst == 2 * r > bot \/ (2 * r = bot /\ lo % 2 = 1)
        both == IF r = 0 THEN <<lo>>
                ELSE IF hiFirst THEN <<lo + 1, lo>> ELSE <<lo, lo + 1>>
    IN  SelectSeq([i \in 1..Len(both) |-> dec(num.s * both[i])],
                  LAMBDA d : Number(d) = num)

\* new Big(num): big.js reads String(num), the decimal of the fewest
\* significant digits that Number reads back as num (the nearest to num when
\* there are two)
RECURSIVE Shortest(_, _)
Shortest(num, j) ==
    IF Candidates(num, j) # <<>> THEN Candidates(num, j)[1]
    ELSE Shortest(num, j + 1)

RECURSIVE NatDigits(_)
NatDigits(k) == IF k < 10 THEN 1 ELSE 1 + NatDigits(k \div 10)

\* (the search starts at the unit above the leading digit of num)
BigOfNumber(num) ==
    IF num.m = 0 THEN Big(0, 0)
    ELSE Shortest(num, -NatDigits((num.m * Pow2(num.k)) \div Pow2(-num.k)))

(***************************************************************************)
(* The currency table of the currency-codes package, as far as the model   *)
(* uses it, and currencyToDecimals.  "XXX" stands for an unknown code.     *)
(***************************************************************************)
CurrencyDigits == [NOK |-> 2, JPY |-> 0, EUR |-> 2, BHD |-> 3]

Ok(v) == [ok |-> TRUE, v |-> v, error |-> ""]

Throw(msg) == [ok |-> FALSE, error |-> msg]

\* r, or what F makes of the value of r: an exception propagates
Bind(r, F(_)) == IF r.ok THEN F(r.v) ELSE r

currencyToDecimals(currency) ==
    IF currency \in DOMAIN CurrencyDigits THEN Ok(CurrencyDigits[currency])
    ELSE IF currency = "UNKNOWN" THEN Ok(2)
    ELSE Throw("Currency " \o currency \o " is not supported")

percentToMultiplier(percent) == BigDiv(BigPlus(percent, Big(100, 0)), Big(100, 0))

percentToRate(percent) == BigDiv(percent, Big(100, 0))

(***************************************************************************)
(* Money.  An object is its frozen _data: amount (a Big), currency,        *)
(* decimals and roundingMode (None when undefined) and tags.               *)
(***************************************************************************)
TagNames == {"includesVat", "isPrice", "isVat"}

DefaultTags == [t \in TagNames |-> FALSE]

\* (a constructor that keeps the amount as given, without rounding it)
constructorUnrounded(data) ==
    IF data.amount = None THEN Throw("Amount is undefined. Needs to be number, string, or Big")
    ELSE Bind(IF data.decimals # None THEN Ok(Get(data.decimals))
              ELSE currencyToDecimals(data.currency),
              LAMBDA decimals :
                Ok([currency     |-> data.currency,
                    amount       |-> Get(data.amount),
                    decimals     |-> data.decimals,
                    roundingMode |-> data.roundingMode,
                    tags         |-> data.tags @@ DefaultTags]))

\* (a constructor whose default rounding mode is half to even)
constructorHalfEven(data) ==
    IF data.amount = None THEN Throw("Amount is undefined. Needs to be number, string, or Big")
    ELSE Bind(IF data.decimals # None THEN Ok(Get(data.decimals))
              ELSE currencyToDecimals(data.currency),
              LAMBDA decimals :
                Ok([currency     |-> data.currency,
                    amount       |-> BigRound(Get(data.amount), decimals,
                                              OrElse(data.roundingMode, 2)),
                    decimals     |-> data.decimals,
                    roundingMode |-> data.roundingMode,
                    tags         |-> data.tags @@ DefaultTags]))

\* new Money(data); data.amount is None when undefined
constructor(data) ==
    IF data.amount = None THEN Throw("Amount is undefined. Needs to be number, string, or Big")
    ELSE Bind(IF data.decimals # None THEN Ok(Get(data.decimals))
              ELSE currencyToDecimals(data.currency),
              LAMBDA decimals :
                Ok([currency     |-> data.currency,
                    amount       |-> BigRound(Get(data.amount), decimals,
                                              OrElse(data.roundingMode, BigRM)),
                    decimals     |-> data.decimals,
                    roundingMode |-> data.roundingMode,
                    tags         |-> data.tags @@ DefaultTags]))

NoOptions == [decimals |-> None, roundingMode |-> None, tags |-> <<>>]

\* Money.of(amount, currency, options)
of(amount, currency, options) ==
    constructor([amount |-> amount, currency |-> currency] @@ options)

\* { ...this._data }
Data(m) == [m EXCEPT !.amount = Some(m.amount)]

merge(m, data) == constructor(data @@ Data(m))

\* (the currency of a Money without decimals was resolved at construction)
getDecimals(m) == OrElse(m.decimals, currencyToDecimals(m.currency).v)

toString(m) == BigToFixed(m.amount, getDecimals(m))

\* (a conversion that returns the number without reading it back)
toNumberUnchecked(m) ==
    Ok(Number(BigRound(m.amount, getDecimals(m), BigRM)))

\* m.toNumber(): str is toString(), the string of the amount at its scale
toNumber(m) ==
    LET str == toString(m)
        num == Number(BigRound(m.amount, getDecimals(m), BigRM))
    IN  Bind(merge(m, [amount |-> Some(BigOfNumber(num))]),
             LAMBDA t : IF str # toString(t)
                        THEN Throw("Converting to number was imprecise")
                        ELSE Ok(num))

\* (an assertion that lets any pair of currencies through)
assertAnyCurrency(m, money) == Ok(m)

assertSameCurrency(m, money) ==
    IF money.currency # m.currency THEN Throw("Currencies must be the same")
    ELSE Ok(m)

\* (a setDecimals that records the scale and leaves the amount as it is)
setDecimalsUnrounded(m, decimals) == Ok([m EXCEPT !.decimals = Some(decimals)])

setDecimals(m, decimals) == merge(m, [decimals |-> Some(decimals)])

resetDecimals(m) == merge(m, [decimals |-> None])

setTag(m, tagName, value) ==
    constructor([tags |-> (tagName :> value) @@ m.tags] @@ Data(m))

getTag(m, tagName, defaultValue) ==
    IF tagName \in DOMAIN m.tags THEN m.tags[tagName] ELSE defaultValue

\* (a conversion through a Money of the source currency: the product is
\* rounded at the source scale before it is divided)
toCurrencyViaMoney(m, currency, currencyRate, currencyUnit) ==
    IF currencyUnit.n = 0 THEN Throw("[big.js] Division by zero")
    ELSE Bind(merge(m, [amount |-> Some(BigMul(m.amount, currencyRate))]),
              LAMBDA p :
                constructor([amount   |-> Some(BigDiv(p.amount, currencyUnit)),
                             currency |-> currency] @@ Data(m)))

toCurrency(m, currency, currencyRate, currencyUnit) ==
    IF currencyUnit.n = 0 THEN Throw("[big.js] Division by zero")
    ELSE LET amount == BigDiv(BigMul(m.amount, currencyRate), currencyUnit)
         IN  constructor([amount |-> Some(amount), currency |-> currency]
                         @@ Data(m))

\* (a round that drops only the last digit of the amount)
roundOneDigit(m, decimals, roundingMode) ==
    LET amount == BigRound(m.amount, Max(decimals, m.amount.e - 1),
                           OrElse(roundingMode, OrElse(m.roundingMode, BigRM)))
    IN  merge(m, [amount |-> Some(amount)])

round(m, decimals, roundingMode) ==
    LET amount == BigRound(m.amount, decimals,
                           OrElse(roundingMode, OrElse(m.roundingMode, BigRM)))
    IN  merge(m, [amount |-> Some(amount)])

multiply(m, factor) == merge(m, [amount |-> Some(BigMul(m.amount, factor))])

divide(m, divisor) ==
    IF divisor.n = 0 THEN Throw("[big.js] Division by zero")
    ELSE merge(m, [amount |-> Some(BigDiv(m.amount, divisor))])

\* (a sum kept at the wider of the two scales)
addAtWiderScale(m, money) ==
    Bind(assertSameCurrency(m, money),
         LAMBDA t : merge(m, [amount   |-> Some(BigPlus(m.amount, money.amount)),
                              decimals |-> Some(Max(getDecimals(m),
                                                    getDecimals(money)))]))

add(m, money) ==
    Bind(assertSameCurrency(m, money),
         LAMBDA t : merge(m, [amount |-> Some(BigPlus(m.amount, money.amount))]))

subtract(m, money) ==
    Bind(assertSameCurrency(m, money),
         LAMBDA t : merge(m, [amount |-> Some(BigMinus(m.amount, money.amount))]))

abs(m) == merge(m, [amount |-> Some(BigAbs(m.amount))])

equals(m, money) ==
    Ok(m.currency = money.currency /\ BigCmp(m.amount, money.amount) = 0)

greaterThan(m, money) ==
    Bind(assertSameCurrency(m, money),
         LAMBDA t : Ok(BigCmp(m.amount, money.amount) > 0))

greaterThanOrEqual(m, money) ==
    Bind(assertSameCurrency(m, money),
         LAMBDA t : Ok(BigCmp(m.amount, money.amount) >= 0))

lessThan(m, money) ==
    Bind(assertSameCurrency(m, money),
         LAMBDA t : Ok(BigCmp(m.amount, money.amount) < 0))

lessThanOrEqual(m, money) ==
    Bind(assertSameCurrency(m, money),
         LAMBDA t : Ok(BigCmp(m.amount, money.amount) <= 0))

\* (a compare of the digits of the two amounts, whatever their exponents)
compareDigits(money1, money2) ==
    Bind(assertSameCurrency(money1, money2),
         LAMBDA t : Ok(Sign(money1.amount.n - money2.amount.n)))

compare(money1, money2) ==
    Bind(assertSameCurrency(money1, money2),
         LAMBDA t : Ok(BigCmp(money1.amount, money2.amount)))

\* moneys.sort(Money.compare): an insertion sort that keeps the order of
\* equal items; the comparator throws on the first pair of two currencies
RECURSIVE insertSorted(_, _, _)
insertSorted(sorted, m, k) ==
    IF k > Len(sorted) THEN Ok(Append(sorted, m))
    ELSE Bind(compare(m, sorted[k]),
              LAMBDA c : IF c < 0
                         THEN Ok(SubSeq(sorted, 1, k - 1) \o <<m>>
                                 \o SubSeq(sorted, k, Len(sorted)))
                         ELSE insertSorted(sorted, m, k + 1))

RECURSIVE sortFrom(_, _, _)
sortFrom(sorted, moneys, k) ==
    IF k > Len(moneys) THEN Ok(sorted)
    ELSE Bind(insertSorted(sorted, moneys[k], 1),
              LAMBDA s : sortFrom(s, moneys, k + 1))

sort(moneys) == sortFrom(<<>>, moneys, 1)

isZero(m) == BigSign(m.amount) = 0

isPositive(m) == BigSign(m.amount) > 0

isNegative(m) == BigSign(m.amount) < 0

RECURSIVE sumFrom(_, _, _)
sumFrom(acc, moneys, k) ==
    IF k > Len(moneys) \/ ~acc.ok THEN acc
    ELSE sumFrom(add(acc.v, moneys[k]), moneys, k + 1)

\* (a sum that starts from a zero built with the currency and the options
\* given, so that these set the precision of the result)
sumFromZero(moneys, currency, options) ==
    IF Len(moneys) = 0 /\ currency = None
    THEN Throw("Currency must be set when summing an empty list of money's")
    ELSE sumFrom(of(Some(Big(0, 0)), OrElse(currency, moneys[1].currency),
                    options),
                 moneys, 1)

\* Money.sum(moneys, currency, options); currency is None when undefined
sum(moneys, currency, options) ==
    IF Len(moneys) = 0 /\ currency = None
    THEN Throw("Currency must be set when summing an empty list of money's")
    ELSE IF Len(moneys) = 0
    THEN of(Some(Big(0, 0)), Get(currency), options)
    ELSE sumFrom(Ok(moneys[1]), moneys, 2)

\* moneys.reduce((best, money) => money.greaterThan(best) ? money : best,
\* moneys[0]), with lessThan for the least: the position in the list of the
\* Money the reduction holds after the elements from position i on
RECURSIVE pick(_, _, _, _)
pick(greatest, moneys, best, i) ==
    IF i > Len(moneys) THEN Ok(best)
    ELSE Bind(IF greatest THEN greaterThan(moneys[i], moneys[best])
              ELSE lessThan(moneys[i], moneys[best]),
              LAMBDA better : pick(greatest, moneys,
                                   IF better THEN i ELSE best, i + 1))

\* Money.min(moneys): the position in the list of the Money returned
min(moneys) ==
    IF Len(moneys) = 0 THEN Throw("Need at least one money for comparison")
    ELSE pick(FALSE, moneys, 1, 1)

\* Money.max with the reduction started from the last element of the list
maxFromLast(moneys) ==
    IF Len(moneys) = 0 THEN Throw("Need at least one money for comparison")
    ELSE pick(TRUE, moneys, Len(moneys), 1)

\* Money.max(moneys): the position in the list of the Money returned
max(moneys) ==
    IF Len(moneys) = 0 THEN Throw("Need at least one money for comparison")
    ELSE pick(TRUE, moneys, 1, 1)

RECURSIVE BigSum(_, _)
BigSum(bigs, k) ==
    IF k > Len(bigs) THEN Big(0, 0) ELSE BigPlus(bigs[k], BigSum(bigs, k + 1))

\* (a loop that hands out one unit and stops: an "if" for the "while")
reconcileOnce(parts, rest, smallestUnit, i) ==
    IF isZero(rest) THEN Ok([parts |-> parts, steps |-> i])
    ELSE Ok([parts |-> [parts EXCEPT ![i + 1] = add(parts[i + 1], smallestUnit).v],
             steps |-> i + 1])

\* the while loop of distributeBy in src/src/index.ts: the unit goes to
\* parts[i] whatever its weight, and i only grows; parts[i] past the end is
\* undefined, and calling add on it is a TypeError
RECURSIVE reconcile(_, _, _, _)
reconcile(parts, rest, smallestUnit, i) ==
    IF isZero(rest) THEN Ok([parts |-> parts, steps |-> i])
    ELSE IF i >= Len(parts) THEN Throw("TypeError")
    ELSE reconcile([parts EXCEPT ![i + 1] = add(parts[i + 1], smallestUnit).v],
                   subtract(rest, smallestUnit).v, smallestUnit, i + 1)

\* the while loop of distributeBy in the compiled module: an index of weight
\* zero is passed over, and i wraps around
RECURSIVE reconcileJs(_, _, _, _, _, _)
reconcileJs(weights, parts, rest, smallestUnit, i, steps) ==
    IF isZero(rest) THEN Ok([parts |-> parts, steps |-> steps])
    ELSE IF weights[i + 1].n # 0
    THEN reconcileJs(weights,
                     [parts EXCEPT ![i + 1] = add(parts[i + 1], smallestUnit).v],
                     subtract(rest, smallestUnit).v, smallestUnit,
                     (i + 1) % Len(weights), steps + 1)
    ELSE reconcileJs(weights, parts, rest, smallestUnit,
                     (i + 1) % Len(weights), steps + 1)

\* what distributeBy computes before its loop: the provisional parts, the
\* rest and the signed smallest unit (no merge of a constructed Money throws)
provisional(m, weights) ==
    LET totalWeight == BigSum(weights, 1)
        parts == [k \in 1..Len(weights) |->
                    multiply(m, BigDiv(weights[k], totalWeight)).v]
        rest  == subtract(m, sum(parts, Some(m.currency), NoOptions).v).v
        one   == divide(merge(m, [amount |-> Some(Big(1, 0))]).v,
                        BigPow10(getDecimals(m))).v
        smallestUnit ==
            multiply(one, IF isPositive(rest) THEN Big(1, 0) ELSE Big(-1, 0)).v
    IN  [parts |-> parts, rest |-> rest, smallestUnit |-> smallestUnit]

validWeights(weights) ==
    IF \E k \in 1..Len(weights) : weights[k].n < 0
    THEN Throw("Cannot distribute by negative weights")
    ELSE IF BigSum(weights, 1).n <= 0
    THEN Throw("Total weight must be greater than 0")
    ELSE Ok(weights)

\* m.distributeBy(inputWeights), src/src/index.ts
distributeBy(m, inputWeights) ==
    Bind(validWeights(inputWeights),
         LAMBDA weights :
           LET p == provisional(m, weights)
           IN  reconcile(p.parts, p.rest, p.smallestUnit, 0))

\* m.distributeBy(inputWeights), the compiled module
distributeByJs(m, inputWeights) ==
    Bind(validWeights(inputWeights),
         LAMBDA weights :
           LET p == provisional(m, weights)
           IN  reconcileJs(weights, p.parts, p.rest, p.smallestUnit, 0, 0))

DEFAULT_DECIMALS_PRICE == 10

\* Money.fromPrice with the decimals of the currency in place of the 10 of a
\* price
fromPriceAtScale(price, currency, options) == of(Some(price), currency, options)

\* Money.fromPrice(price, currency, options): { decimals: 10, ...options }
fromPrice(price, currency, options) ==
    of(Some(price), currency,
       [options EXCEPT !.decimals = IF options.decimals = None
                                    THEN Some(DEFAULT_DECIMALS_PRICE)
                                    ELSE options.decimals])

\* Money.fromPriceAndQuantity(price, quantity, currency, options)
fromPriceAndQuantity(price, quantity, currency, options) ==
    Bind(fromPrice(price, currency, options),
         LAMBDA p : Bind(multiply(p, quantity), resetDecimals))

\* Money.fromFractionlessAmount(amount, currency, options)
fromFractionlessAmount(amount, currency, options) ==
    Bind(of(Some(amount), currency, options),
         LAMBDA m : Bind(currencyToDecimals(currency),
                         LAMBDA scale : divide(m, BigPow10(scale))))

\* m.toFractionlessAmount()
toFractionlessAmount(m) ==
    Bind(currencyToDecimals(m.currency),
         LAMBDA scale :
           Bind(multiply(m, BigPow10(scale)),
                LAMBDA minor : Bind(round(minor, 0, None), toNumber)))

\* Array(nParts).fill(1)
Ones(n) == [k \in 1..n |-> Big(1, 0)]

\* (a distribute that rounds the number of parts instead of rejecting it)
distributeRounded(m, nParts) ==
    distributeBy(m, Ones(Max(BigRound(nParts, 0, BigRM).n, 1)))

\* m.distribute(nParts), nParts a number given as a decimal; Array(nParts)
\* of a negative length is a RangeError
distribute(m, nParts) ==
    IF nParts.e > 0 THEN Throw("Number of parts must be a whole number")
    ELSE IF nParts.n < 0 THEN Throw("Invalid array length")
    ELSE distributeBy(m, Ones(nParts.n))

\* m.distribute(nParts), the compiled module
distributeJs(m, nParts) ==
    IF nParts.e > 0 THEN Throw("Number of parts must be a whole number")
    ELSE IF nParts.n < 0 THEN Throw("Invalid array length")
    ELSE distributeByJs(m, Ones(nParts.n))

addVat(m, vatPercentage) ==
    Bind(multiply(m, percentToMultiplier(vatPercentage)),
         LAMBDA t : setTag(t, "includesVat", TRUE))

\* (a removeVat that leaves the includesVat tag as it is)
removeVatTagged(m, vatPercentage) ==
    divide(m, percentToMultiplier(vatPercentage))

removeVat(m, vatPercentage) ==
    Bind(divide(m, percentToMultiplier(vatPercentage)),
         LAMBDA t : setTag(t, "includesVat", FALSE))

\* (a getVat that takes the amount for net when the argument is omitted)
getVatOfNet(m, vatPercentage, includesVat) ==
    LET withoutVat == IF OrElse(includesVat, FALSE)
                      THEN removeVat(m, vatPercentage)
                      ELSE Ok(m)
    IN  Bind(withoutVat,
             LAMBDA w : Bind(multiply(w, percentToRate(vatPercentage)),
                             LAMBDA t : setTag(t, "isVat", TRUE)))

\* includesVat is None when the argument is omitted
getVat(m, vatPercentage, includesVat) ==
    LET withoutVat == IF OrElse(includesVat, getTag(m, "includesVat", FALSE))
                      THEN removeVat(m, vatPercentage)
                      ELSE Ok(m)
    IN  Bind(withoutVat,
             LAMBDA w : Bind(multiply(w, percentToRate(vatPercentage)),
                             LAMBDA t : setTag(t, "isVat", TRUE)))

(***************************************************************************)
(* The state.  heap is the sequence of the Money objects the caller holds  *)
(* (an object is named by its index); last describes the last call: the    *)
(* method, the receiver and the argument (indices into heap, 0 when there  *)
(* is none), the other arguments, and what came back: kind "money" with    *)
(* the new Money in val, kind "parts" with an array of Moneys, kind        *)
(* "value" with a boolean, number or string, or kind "throw".  A call is   *)
(* made when the caller is done with the one before (kind "none").         *)
(***************************************************************************)
Idle == [error |-> "", op |-> "", recv |-> 0, arg |-> 0, args |-> <<>>,
         kind |-> "none", val |-> <<>>]

\* (a method that writes its result into the receiver)
AfterInPlace(h, recv, m) == IF recv = 0 THEN h ELSE [h EXCEPT ![recv] = m]

\* the heap after a call on receiver recv that built the Money m: the
\* constructor freezes the object and its _data, and every method hands its
\* result to a new Money, so no object the caller holds is written
After(h, recv, m) == h

Returns(kind, op, recv, arg, args, r) ==
    /\ last.kind = "none"
    /\ heap' = IF r.ok /\ kind = "money" THEN After(heap, recv, r.v) ELSE heap
    /\ last' = [error |-> r.error,
                op |-> op, recv |-> recv, arg |-> arg, args |-> args,
                kind |-> IF r.ok THEN kind ELSE "throw",
                val |-> IF r.ok THEN r.v ELSE <<>>]

Objects == 1..Len(heap)

\* the caller keeps the Money the last call returned
Keep ==
    /\ last.kind = "money"
    /\ Len(heap) < MaxHeap
    /\ heap' = Append(heap, last.val)
    /\ last' = Idle

\* the caller is done with what the last call returned or threw
Discard ==
    /\ last.kind # "none"
    /\ heap' = heap
    /\ last' = Idle

Of(amounts, currencies, options) ==
    \E a \in amounts, c \in currencies, o \in options :
        Returns("money", "of", 0, 0, <<a, c, o>>, of(Some(a), c, o))

\* Money.of(m.amount(), m.currency(), options) with the decimals and the
\* rounding mode of a Money m the caller holds
Rebuild == \E i \in Objects :
    Of({heap[i].amount}, {heap[i].currency},
       {[decimals |-> heap[i].decimals,
         roundingMode |-> heap[i].roundingMode, tags |-> <<>>]})

Add == \E i, j \in Objects :
    Returns("money", "add", i, j, <<>>, add(heap[i], heap[j]))

Subtract == \E i, j \in Objects :
    Returns("money", "subtract", i, j, <<>>, subtract(heap[i], heap[j]))

Equals == \E i, j \in Objects :
    Returns("value", "equals", i, j, <<>>, equals(heap[i], heap[j]))

GreaterThan == \E i, j \in Objects :
    Returns("value", "greaterThan", i, j, <<>>, greaterThan(heap[i], heap[j]))

GreaterThanOrEqual == \E i, j \in Objects :
    Returns("value", "greaterThanOrEqual", i, j, <<>>,
            greaterThanOrEqual(heap[i], heap[j]))

LessThan == \E i, j \in Objects :
    Returns("value", "lessThan", i, j, <<>>, lessThan(heap[i], heap[j]))

LessThanOrEqual == \E i, j \in Objects :
    Returns("value", "lessThanOrEqual", i, j, <<>>,
            lessThanOrEqual(heap[i], heap[j]))

Compare == \E i, j \in Objects :
    Returns("value", "compare", i, j, <<>>, compare(heap[i], heap[j]))

Merge(datas) == \E i \in Objects, data \in datas :
    Returns("money", "merge", i, 0, <<data>>, merge(heap[i], data))

Multiply(factors) == \E i \in Objects, f \in factors :
    Returns("money", "multiply", i, 0, <<f>>, multiply(heap[i], f))

Divide(divisors) == \E i \in Objects, f \in divisors :
    Returns("money", "divide", i, 0, <<f>>, divide(heap[i], f))

Round(scales, modes) == \E i \in Objects, d \in scales, rm \in modes :
    Returns("money", "round", i, 0, <<d, rm>>, round(heap[i], d, rm))

AbsOp == \E i \in Objects :
    Returns("money", "abs", i, 0, <<>>, abs(heap[i]))

SetDecimals(scales) == \E i \in Objects, d \in scales :
    Returns("money", "setDecimals", i, 0, <<d>>, setDecimals(heap[i], d))

ResetDecimals == \E i \in Objects :
    Returns("money", "resetDecimals", i, 0, <<>>, resetDecimals(heap[i]))

ToCurrency(currencies, rates, units) ==
    \E i \in Objects, c \in currencies, rate \in rates, unit \in units :
        Returns("money", "toCurrency", i, 0, <<c, rate, unit>>,
                toCurrency(heap[i], c, rate, unit))

SetTag(names) == \E i \in Objects, t \in names, b \in BOOLEAN :
    Returns("money", "setTag", i, 0, <<t, b>>, setTag(heap[i], t, b))

AddVat(percents) == \E i \in Objects, p \in percents :
    Returns("money", "addVat", i, 0, <<p>>, addVat(heap[i], p))

RemoveVat(percents) == \E i \in Objects, p \in percents :
    Returns("money", "removeVat", i, 0, <<p>>, removeVat(heap[i], p))

GetVat(percents) ==
    \E i \in Objects, p \in percents, inc \in {None, Some(TRUE), Some(FALSE)} :
        Returns("money", "getVat", i, 0, <<p, inc>>, getVat(heap[i], p, inc))

ToStringOp == \E i \in Objects :
    Returns("value", "toString", i, 0, <<>>, Ok(toString(heap[i])))

ToNumber == \E i \in Objects :
    Returns("value", "toNumber", i, 0, <<>>, toNumber(heap[i]))

FromPrice(prices, currencies, options) ==
    \E p \in prices, c \in currencies, o \in options :
        Returns("money", "fromPrice", 0, 0, <<p, c, o>>, fromPrice(p, c, o))

FromPriceAndQuantity(prices, quantities, currencies, options) ==
    \E p \in prices, q \in quantities, c \in currencies, o \in options :
        Returns("money", "fromPriceAndQuantity", 0, 0, <<p, q, c, o>>,
                fromPriceAndQuantity(p, q, c, o))

FromFractionlessAmount(amounts, currencies, options) ==
    \E a \in amounts, c \in currencies, o \in options :
        Returns("money", "fromFractionlessAmount", 0, 0, <<a, c, o>>,
                fromFractionlessAmount(a, c, o))

ToFractionlessAmount == \E i \in Objects :
    Returns("value", "toFractionlessAmount", i, 0, <<>>,
            toFractionlessAmount(heap[i]))

\* Money.sum(moneys, currency, options) on a list of Moneys the caller holds
Sum(maxLen, currencies, options) ==
    \E idx \in UNION {[1..k -> Objects] : k \in 0..maxLen},
       c \in currencies, o \in options :
        Returns("money", "sum", 0, 0, <<idx, c, o>>,
                sum([k \in 1..Len(idx) |-> heap[idx[k]]], c, o))

\* Money.max of a list of Moneys the caller holds: the call returns one of
\* the objects of the list, which the model names by its place in the heap
MaxOf(maxLen) ==
    \E idx \in UNION {[1..k -> Objects] : k \in 0..maxLen} :
        Returns("ref", "max", 0, 0, <<idx>>,
                Bind(max([k \in 1..Len(idx) |-> heap[idx[k]]]),
                     LAMBDA k : Ok(idx[k])))

\* Money.min of a list of Moneys the caller holds
MinOf(maxLen) ==
    \E idx \in UNION {[1..k -> Objects] : k \in 0..maxLen} :
        Returns("ref", "min", 0, 0, <<idx>>,
                Bind(min([k \in 1..Len(idx) |-> heap[idx[k]]]),
                     LAMBDA k : Ok(idx[k])))

\* [...held].sort(Money.compare) on the Moneys the caller holds
Sort ==
    /\ heap # <<>>
    /\ Returns("parts", "sort", 0, 0, <<>>, sort(heap))

DistributeBy(weightLists) == \E i \in Objects, w \in weightLists :
    Returns("parts", "distributeBy", i, 0, w,
            Bind(distributeBy(heap[i], w), LAMBDA r : Ok(r.parts)))

DistributeByJs(weightLists) == \E i \in Objects, w \in weightLists :
    Returns("parts", "distributeByJs", i, 0, w,
            Bind(distributeByJs(heap[i], w), LAMBDA r : Ok(r.parts)))

Distribute(counts) == \E i \in Objects, n \in counts :
    Returns("parts", "distribute", i, 0, <<n>>,
            Bind(distribute(heap[i], n), LAMBDA r : Ok(r.parts)))

DistributeJs(counts) == \E i \in Objects, n \in counts :
    Returns("parts", "distributeJs", i, 0, <<n>>,
            Bind(distributeJs(heap[i], n), LAMBDA r : Ok(r.parts)))

(***************************************************************************)
(* Inputs.                                                                 *)
(***************************************************************************)
Options(decimals, roundingModes) ==
    {[decimals |-> d, roundingMode |-> rm, tags |-> <<>>] :
        d \in decimals, rm \in roundingModes}

\* the Moneys Money.of builds from the given inputs
MoneysOf(amounts, currencies, options) ==
    {of(Some(a), c, o).v : <<a, c, o>> \in
        {x \in amounts \X currencies \X options : of(Some(x[1]), x[2], x[3]).ok}}

\* the weight lists of 1..MaxParts whole weights in 0..MaxWeight, with the
\* empty list and a negative weight
Weights == UNION {[1..k -> {Big(w, 0) : w \in 0..MaxWeight}] : k \in 1..MaxParts}

BadWeights == {<<>>, <<Big(1, 0), Big(-1, 0)>>}

SessionAmounts == {Big(-15, 1), Big(1005, 3)}

SessionOptions == Options({None, Some(3)}, {None}) \cup Options({None}, {Some(0)})

SessionWeights == {<<Big(1, 0), Big(1, 0), Big(1, 0)>>,
                   <<Big(0, 0), Big(2, 0), Big(1, 0)>>} \cup BadWeights

Init == heap = <<>> /\ last = Idle

Next ==
    \/ Keep
    \/ Discard
    \/ Of(SessionAmounts, {"NOK", "JPY", "XXX"}, SessionOptions)
    \/ Add
    \/ Subtract
    \/ Equals
    \/ GreaterThan
    \/ GreaterThanOrEqual
    \/ LessThan
    \/ LessThanOrEqual
    \/ Compare
    \/ Merge({[amount |-> Some(Big(25, 3))], [roundingMode |-> Some(2)]})
    \/ Multiply({Big(15, 1)})
    \/ Divide({Big(3, 0), Big(0, 0)})
    \/ Round({0}, {None, Some(3)})
    \/ AbsOp
    \/ SetDecimals({1})
    \/ ResetDecimals
    \/ ToCurrency({"JPY", "BHD"}, {Big(861, 2)}, {Big(1, 0), Big(7, 0)})
    \/ SetTag({"includesVat"})
    \/ AddVat({Big(25, 0)})
    \/ RemoveVat({Big(25, 0)})
    \/ GetVat({Big(25, 0)})
    \/ ToStringOp
    \/ ToNumber
    \/ DistributeBy(SessionWeights)
    \/ DistributeByJs(SessionWeights)

Spec == Init /\ [][Next]_vars

(***************************************************************************)
(* distributeBy on one Money drawn from a wider set of amounts, scales and *)
(* rounding modes, with every weight list of the bounds.                   *)
(***************************************************************************)
AllModes == {None, Some(0), Some(1), Some(2), Some(3)}

Amounts(scales) == {Big(n, e) : n \in -MaxUnits..MaxUnits, e \in scales}

DistMoneys == MoneysOf(Amounts({0, 2}), {"NOK", "JPY"},
                       Options({None}, AllModes) \cup Options({Some(1)}, {None}))

InitDist == heap \in {<<m>> : m \in DistMoneys} /\ last = Idle

DistWeights == Weights \cup BadWeights

NextDist ==
    \/ DistributeBy(DistWeights)
    \/ DistributeByJs(DistWeights)
    \/ Discard

SpecDist == InitDist /\ [][NextDist]_vars

IsDistribute == last.op \in {"distributeBy", "distributeByJs"}

\* all weights >= 0, their sum > 0 (so there is at least one)
GoodWeights(w) ==
    /\ \A k \in 1..Len(w) : w[k].n >= 0
    /\ \E k \in 1..Len(w) : w[k].n > 0

\* the exact sum of the amounts of a list of Moneys
AmountSum(moneys) == BigSum([k \in 1..Len(moneys) |-> moneys[k].amount], 1)

C2_ZeroWeightZeroPart ==
    (IsDistribute /\ last.kind = "parts") =>
        \A k \in 1..Len(last.args) :
            last.args[k].n = 0 => last.val[k].amount.n = 0

(***************************************************************************)
(* Properties of the session (Spec).                                       *)
(***************************************************************************)
Binary == {"add", "subtract", "equals", "greaterThan", "greaterThanOrEqual",
           "lessThan", "lessThanOrEqual", "compare"}

\* the last call was a binary operation on two Moneys of different currencies
Mismatch ==
    /\ last.op \in Binary
    /\ heap[last.recv].currency # heap[last.arg].currency

MismatchThrown == last.kind = "throw" /\ last.error = "Currencies must be the same"

AtOwnScale(m) ==
    /\ IsExact(m.amount)
    /\ m.amount.e <= getDecimals(m)
    /\ \A rm \in 0..3 : BigRound(m.amount, getDecimals(m), rm) = m.amount

\* the Moneys the caller holds or was just handed
Held ==
    {heap[i] : i \in Objects}
    \cup (CASE last.kind = "money" -> {last.val}
            [] last.kind = "parts" -> {last.val[k] : k \in 1..Len(last.val)}
            [] OTHER -> {})

\* C4: every Money reachable by construction followed by any sequence of
\* operations holds an amount already rounded to its own scale (the decimals
\* override if present, the scale of the currency otherwise)
C4_ScaleInvariant == \A m \in Held : AtOwnScale(m)

\* a Money with a decimals override was divided by 3 and the quotient had to
\* be rounded
C4_Witness ==
    /\ last.op = "divide"
    /\ last.kind = "money"
    /\ last.args = <<Big(3, 0)>>
    /\ last.val.decimals # None
    /\ BigCmp(BigMul(last.val.amount, Big(3, 0)), heap[last.recv].amount) # 0

IsRounding(num, den, r, rm) ==
    LET off == Abs(num - r * den)
    IN  CASE rm = 0 -> /\ Abs(r) * den <= Abs(num)
                       /\ off < den
                       /\ r * Sign(num) >= 0
          [] rm = 3 -> /\ Abs(r) * den >= Abs(num)
                       /\ off < den
                       /\ r * Sign(num) >= 0
          [] rm = 1 -> /\ 2 * off <= den
                       /\ 2 * off = den => Abs(r) * den > Abs(num)
          [] rm = 2 -> /\ 2 * off <= den
                       /\ 2 * off = den => r % 2 = 0

(***************************************************************************)
(* Money.of on decimal literals of up to three places, with and without a  *)
(* decimals override and a rounding mode.                                  *)
(***************************************************************************)
OfAmounts == Amounts({0, 1, 2, 3})
             \cup {Big(-15, 1), Big(15, 1), Big(25, 1), Big(8165, 3)}

OfOptions == Options({None, Some(0), Some(1)}, AllModes)

NextOf ==
    \/ Of(OfAmounts, {"NOK", "JPY", "BHD", "XXX"}, OfOptions)
    \/ Discard

SpecOf == Init /\ [][NextOf]_vars

\* C6: with no roundingMode option construction rounds half away from zero:
\* the amount becomes the nearest value of its scale, and a value halfway
\* between two becomes the one of larger magnitude (-1.5 at 0 decimals is
\* -2, 1.5 is 2, 8.165 at 2 decimals is 8.17)
C6_DefaultHalfAwayFromZero ==
    (last.op = "of" /\ last.kind = "money" /\ last.args[3].roundingMode = None) =>
        LET a   == last.args[1]
            S   == getDecimals(last.val)
            \* a is num / den units of 10^-S
            num == a.n * Pow10(S - a.e)
            den == Pow10(a.e - S)
            r   == Scaled(last.val.amount, S)
        IN  /\ last.val.amount.e <= S
            /\ 2 * Abs(num - r * den) <= den
            /\ 2 * Abs(num - r * den) = den => Abs(r) * den > Abs(num)
            /\ (a = Big(-15, 1) /\ S = 0) => toString(last.val) = "-2"
            /\ (a = Big(15, 1) /\ S = 0) => toString(last.val) = "2"
            /\ (a = Big(8165, 3) /\ S = 2) => toString(last.val) = "8.17"

\* Money.of(8.165, 'NOK') was built, a tie whose neighbour towards zero is
\* the even one
C6_Witness ==
    /\ last.op = "of"
    /\ last.kind = "money"
    /\ last.args = <<Big(8165, 3), "NOK", NoOptions>>
    /\ toString(last.val) = "8.17"

(***************************************************************************)
(* add and subtract on two Moneys built by Money.of, of the same or of     *)
(* different scales, rounding modes and currencies.                        *)
(***************************************************************************)
ArithAmounts == Amounts({0, 2}) \cup {Big(2, 1), Big(1, 3), Big(1005, 3)}

ArithOptions == Options({None, Some(3)}, {None}) \cup Options({None}, {Some(0)})

ArithMoneys == MoneysOf(ArithAmounts, {"NOK", "JPY"}, ArithOptions)

InitArith == heap \in {<<a, b>> : a, b \in ArithMoneys} /\ last = Idle

NextArith == Add \/ Subtract \/ Discard

SpecArith == InitArith /\ [][NextArith]_vars

IsSum == last.op \in {"add", "subtract"}

SameCurrency == heap[last.recv].currency = heap[last.arg].currency

\* a + b (add) or a - b (subtract) of the operands of the last call, as an
\* integer count of units of 10^-e
ExactUnits(e) ==
    LET a == Scaled(heap[last.recv].amount, e)
        b == Scaled(heap[last.arg].amount, e)
    IN  IF last.op = "add" THEN a + b ELSE a - b

\* C7: for decimal values a and b of a scale no larger than the scale of
\* currency c, Money.of(a, c).add(Money.of(b, c)) has exactly the amount
\* a + b and subtract exactly a - b; 0.1 + 0.2 prints as "0.30"
C7_LiteralSumExact ==
    (/\ IsSum
     /\ SameCurrency
     /\ heap[last.recv].decimals = None
     /\ heap[last.arg].decimals = None) =>
        LET S == currencyToDecimals(heap[last.recv].currency).v
        IN  /\ last.kind = "money"
            /\ last.val.amount.e <= S
            /\ Scaled(last.val.amount, S) = ExactUnits(S)
            /\ (/\ last.op = "add"
                /\ heap[last.recv].currency = "NOK"
                /\ heap[last.recv].amount = Big(1, 1)
                /\ heap[last.arg].amount = Big(2, 1)) => toString(last.val) = "0.30"

\* 0.1 NOK + 0.2 NOK was computed and prints as "0.30"
C7_Witness ==
    /\ last.op = "add"
    /\ last.kind = "money"
    /\ heap[last.recv] = of(Some(Big(1, 1)), "NOK", NoOptions).v
    /\ heap[last.arg] = of(Some(Big(2, 1)), "NOK", NoOptions).v
    /\ toString(last.val) = "0.30"

\* C8 as stated: add and subtract of any two Moneys of one currency are
\* exact, the scale of the result being the larger of the two scales,
\* whichever operand is the receiver
C8_ExactAtWiderScale ==
    (IsSum /\ SameCurrency) =>
        LET S == Max(getDecimals(heap[last.recv]), getDecimals(heap[last.arg]))
        IN  /\ last.kind = "money"
            /\ getDecimals(last.val) = S
            /\ Scaled(last.val.amount, S) = ExactUnits(S)

\* C8, amended: the result of add and subtract has the scale, the rounding
\* mode and the tags of the receiver, and its amount is the exact sum
\* (difference) rounded at that scale with that mode; it is exact when the
\* scale of the argument is no larger than the receiver's, and a.add(b) and
\* b.add(a) have the same amount when the two scales are equal
C8_ExactAtReceiverScale ==
    (IsSum /\ SameCurrency) =>
        LET m  == heap[last.recv]
            S  == getDecimals(m)
            T  == Max(S, getDecimals(heap[last.arg]))
        IN  /\ last.kind = "money"
            /\ last.val.decimals = m.decimals
            /\ last.val.roundingMode = m.roundingMode
            /\ last.val.tags = m.tags
            /\ last.val.currency = m.currency
            /\ last.val.amount.e <= S
            /\ IsRounding(ExactUnits(T), Pow10(T - S), Scaled(last.val.amount, S),
                          OrElse(m.roundingMode, BigRM))
            /\ T = S => Scaled(last.val.amount, S) = ExactUnits(S)
            /\ (last.op = "add" /\ getDecimals(heap[last.arg]) = S) =>
                   last.val.amount = add(heap[last.arg], m).v.amount

\* 1.00 NOK, the receiver, was given 0.001 NOK held at three decimals, and
\* the sum is 1.00 NOK at the receiver's two decimals
C8_Witness ==
    /\ last.op = "add"
    /\ last.kind = "money"
    /\ heap[last.recv] = of(Some(Big(1, 0)), "NOK", NoOptions).v
    /\ heap[last.arg].amount = Big(1, 3)
    /\ getDecimals(last.val) = 2
    /\ last.val.amount = Big(1, 0)

(***************************************************************************)
(* toCurrency and toNumber on one Money built by Money.of.                 *)
(***************************************************************************)
ConvAmounts == Amounts({0, 2}) \cup {Big(101, 2), Big(257, 2), Big(1005, 3)}

ConvMoneys == MoneysOf(ConvAmounts, {"NOK", "JPY", "BHD"},
                       Options({None, Some(3)}, {None, Some(0)}))

InitConv == heap \in {<<m>> : m \in ConvMoneys} /\ last = Idle

ConvRates == {Big(1, 0), Big(861, 2), Big(15, 2)}

ConvUnits == {Big(1, 0), Big(7, 0), Big(100, 0), Big(0, 0)}

NextConv ==
    \/ ToCurrency({"NOK", "JPY", "BHD", "XXX"}, ConvRates, ConvUnits)
    \/ ToNumber
    \/ Discard

SpecConv == InitConv /\ [][NextConv]_vars

\* the last call was m.toCurrency(c2, rate, unit) with unit # 0; when it
\* returned it returned a Money of currency c2, of the decimals override,
\* rounding mode and tags of m, whose amount is m.amount * rate / unit rounded
\* once at scale S with the rounding mode of m
ConvertedAt(S) ==
    LET m    == heap[last.recv]
        rate == last.args[2]
        unit == last.args[3]
        \* m.amount * rate / unit is num / den units of 10^-S
        shift == S + unit.e - m.amount.e - rate.e
        num  == m.amount.n * rate.n * Sign(unit.n) * Pow10(shift)
        den  == Abs(unit.n) * Pow10(-shift)
    IN  /\ last.kind = "money"
        /\ last.val.currency = last.args[1]
        /\ last.val.decimals = m.decimals
        /\ last.val.roundingMode = m.roundingMode
        /\ last.val.tags = m.tags
        /\ getDecimals(last.val) = S
        /\ last.val.amount.e <= S
        /\ IsRounding(num, den, Scaled(last.val.amount, S),
                      OrElse(m.roundingMode, BigRM))

IsConversion == last.op = "toCurrency" /\ last.args[3].n # 0

\* C9 as stated: for every Money m, m.toCurrency(c2, rate, unit) has
\* currency c2 and the amount m.amount * rate / unit rounded once at the
\* scale of c2, which is the scale of the result
C9_RoundedAtDestinationScale ==
    (IsConversion /\ currencyToDecimals(last.args[1]).ok) =>
        ConvertedAt(currencyToDecimals(last.args[1]).v)

\* C9, amended: m.toCurrency(c2, rate, unit) has currency c2 and keeps the
\* decimals override of m; its scale is that override when m has one and the
\* scale of c2 otherwise, and its amount is m.amount * rate / unit rounded
\* once, at that scale, with the rounding mode of m (not rounded at the
\* scale of the source currency first); without an override an unsupported
\* c2 fails
C9_RoundedOnceAtResultScale ==
    IsConversion =>
        LET m  == heap[last.recv]
            c2 == currencyToDecimals(last.args[1])
        IN  IF m.decimals # None THEN ConvertedAt(Get(m.decimals))
            ELSE IF c2.ok THEN ConvertedAt(c2.v)
            ELSE /\ last.kind = "throw"
                 /\ last.error = "Currency " \o last.args[1] \o " is not supported"

\* 1.01 NOK was converted to BHD at rate 8.61 per 7: 8.6961 / 7 is 1.242 at
\* three decimals, where 8.70 / 7 would have been 1.243
C9_Witness ==
    /\ last.op = "toCurrency"
    /\ last.kind = "money"
    /\ heap[last.recv] = of(Some(Big(101, 2)), "NOK", NoOptions).v
    /\ last.args = <<"BHD", Big(861, 2), Big(7, 0)>>
    /\ last.val.amount = Big(1242, 3)

\* C10: toNumber either returns a number n such that a Money built from n
\* with the currency and options of the original prints the same string as
\* the original, or fails with the precision-loss error; the Money it fails
\* on was constructed all the same
C10_ToNumberValidated ==
    last.op = "toNumber" =>
        LET m == heap[last.recv]
        IN  \/ /\ last.kind = "value"
               /\ LET built == of(Some(BigOfNumber(last.val)), m.currency,
                                  [decimals     |-> m.decimals,
                                   roundingMode |-> m.roundingMode,
                                   tags         |-> m.tags])
                  IN  built.ok /\ toString(built.v) = toString(m)
            \/ /\ last.kind = "throw"
               /\ last.error = "Converting to number was imprecise"
               /\ m \in ConvMoneys

\* toNumber failed on 2.57 NOK, which the narrow number of the model reads
\* as 2.5625 and prints as "2.56"
C10_Witness ==
    /\ last.op = "toNumber"
    /\ last.kind = "throw"
    /\ toString(heap[last.recv]) = "2.57"
    /\ BigOfNumber(Number(heap[last.recv].amount)) = Big(256, 2)

(***************************************************************************)
(* distribute and distributeBy on inputs they must reject, next to inputs  *)
(* they accept.                                                            *)
(***************************************************************************)
RejectWeights == BadWeights
                 \cup {<<Big(0, 0)>>, <<Big(0, 0), Big(0, 0)>>, <<Big(-1, 0)>>,
                       <<Big(2, 0), Big(-1, 0), Big(1, 0)>>,
                       <<Big(-5, 1), Big(15, 1)>>,
                       <<Big(1, 0)>>, <<Big(0, 0), Big(1, 0)>>}

Counts == {Big(n, 0) : n \in -2..MaxParts} \cup {Big(5, 1), Big(15, 1), Big(-15, 1)}

NextReject ==
    \/ DistributeBy(RejectWeights)
    \/ DistributeByJs(RejectWeights)
    \/ Distribute(Counts)
    \/ DistributeJs(Counts)
    \/ Discard

SpecReject == InitDist /\ [][NextReject]_vars

NoParts == last.kind = "throw" /\ last.val = <<>>

\* C11: distributeBy(W) fails and returns no parts when a weight is negative
\* or the sum of the weights is not strictly positive (the empty list
\* included), and distribute(n) fails and returns no parts for every n that
\* is not a positive whole number (a fraction, 0, a negative n)
C11_InvalidInputRejected ==
    /\ (IsDistribute /\ \E k \in 1..Len(last.args) : last.args[k].n < 0) =>
           NoParts /\ last.error = "Cannot distribute by negative weights"
    /\ (IsDistribute /\ (\A k \in 1..Len(last.args) : last.args[k].n >= 0)
                     /\ BigSum(last.args, 1).n <= 0) =>
           NoParts /\ last.error = "Total weight must be greater than 0"
    /\ (last.op \in {"distribute", "distributeJs"}
           /\ (last.args[1].e > 0 \/ last.args[1].n <= 0)) => NoParts

\* distribute(1.5) was rejected
C11_Witness ==
    /\ last.op = "distribute"
    /\ last.args = <<Big(15, 1)>>
    /\ NoParts
    /\ last.error = "Number of parts must be a whole number"

(***************************************************************************)
(* Distribution of a Money of 19 or 20 decimals: the cut of the quotient   *)
(* weight / totalWeight at Big.DP places is there as large as the smallest *)
(* unit of the Money.                                                      *)
(***************************************************************************)
WideMoneys == MoneysOf(Amounts({0}), {"NOK"},
                       Options({Some(BigDP - 1), Some(BigDP)}, AllModes))

InitWide == heap \in {<<m>> : m \in WideMoneys} /\ last = Idle

NextWide ==
    \/ DistributeBy(Weights)
    \/ DistributeByJs(Weights)
    \/ Discard

SpecWide == InitWide /\ [][NextWide]_vars

\* the rest of the last distribution in smallest units is at most N
RestWithin(m, weights) ==
    LET p == provisional(m, weights)
    IN  BigCmp(BigAbs(p.rest.amount),
               BigMul(Big(Len(weights), 0), BigAbs(p.smallestUnit.amount))) <= 0

\* the steps the loop of the last distribution took (None: it threw)
LoopSteps ==
    LET r == IF last.op = "distributeBy"
             THEN distributeBy(heap[last.recv], last.args)
             ELSE distributeByJs(heap[last.recv], last.args)
    IN  IF r.ok THEN Some(r.v.steps) ELSE None

\* part k of the last distribution is its provisional share, or one
\* smallest unit away from it
AtMostOneUnit(k) ==
    LET p == provisional(heap[last.recv], last.args)
        moved == BigMinus(last.val[k].amount, p.parts[k].amount)
    IN  BigCmp(BigAbs(moved), BigAbs(p.smallestUnit.amount)) <= 0

\* C12: for every weight list of N weights >= 0 with a positive sum, the
\* rest after rounding the provisional parts is at most N smallest units, the
\* loop of distributeBy ends within N steps without its index passing the
\* last part, and no part is moved by more than one smallest unit
C12_SinglePass ==
    (IsDistribute /\ GoodWeights(last.args)) =>
        /\ RestWithin(heap[last.recv], last.args)
        /\ last.kind = "parts"
        /\ LoopSteps # None /\ Get(LoopSteps) <= Len(last.args)
        /\ \A k \in 1..Len(last.args) : AtMostOneUnit(k)

\* the same for the loop of the compiled module alone, whose index wraps
C12_SinglePassJs ==
    (last.op = "distributeByJs" /\ GoodWeights(last.args)) =>
        /\ Get(LoopSteps) <= Len(last.args)
        /\ \A k \in 1..Len(last.args) : AtMostOneUnit(k)

\* six whole units at 20 decimals were split in three equal parts
C12_Wide ==
    /\ IsDistribute
    /\ heap[last.recv].amount = Big(6, 0)
    /\ getDecimals(heap[last.recv]) = BigDP
    /\ Len(last.args) = 3 /\ \A k \in 1..3 : last.args[k] = Big(1, 0)

(***************************************************************************)
(* Distribution over weight lists in which a small or zero weight comes    *)
(* first.                                                                  *)
(***************************************************************************)
SignWeights == {<<Big(0, 0), Big(1, 0), Big(1, 0)>>,
                <<Big(1, 0), Big(3, 0), Big(3, 0), Big(3, 0)>>,
                <<Big(1, 0), Big(1, 0), Big(1, 0)>>,
                <<Big(1, 0), Big(1, 0), Big(0, 0)>>,
                <<Big(3, 0), Big(3, 0), Big(3, 0), Big(1, 0)>>,
                <<Big(1, 0), Big(2, 0)>>}

NextSign ==
    \/ DistributeBy(SignWeights)
    \/ DistributeByJs(SignWeights)
    \/ Discard

SpecSign == InitDist /\ [][NextSign]_vars

\* no part of the last distribution has the sign opposite to the amount's
SignConsistent ==
    LET m == heap[last.recv]
    IN  /\ isNegative(m) => \A k \in 1..Len(last.val) : ~isPositive(last.val[k])
        /\ isPositive(m) => \A k \in 1..Len(last.val) : ~isNegative(last.val[k])

\* C13: the parts of a negative amount are all <= 0 and the parts of a
\* positive amount are all >= 0
C13_SignConsistent == (IsDistribute /\ last.kind = "parts") => SignConsistent

\* the same for the compiled module alone, which never hands a unit to a
\* zero weight
C13_SignConsistentJs ==
    (last.op = "distributeByJs" /\ last.kind = "parts") => SignConsistent

(***************************************************************************)
(* Minor units: fromFractionlessAmount and toFractionlessAmount.  The      *)
(* whole numbers are numbers the significand of the model holds exactly.   *)
(***************************************************************************)
WholeNumbers == {Big(n, 0) : n \in -MaxUnits..MaxUnits}
                \cup {Big(105, 0), Big(1000, 0), Big(-1000, 0)}

FracOptions == Options({None, Some(0), Some(1), Some(3), Some(4)}, {None, Some(0)})

FracAmounts == {Big(0, 0), Big(1, 0), Big(10, 0), Big(-15, 1), Big(105, 2)}

FracMoneys == MoneysOf(FracAmounts, {"NOK", "JPY", "BHD"}, FracOptions)

InitFrac == heap \in {<<m>> : m \in FracMoneys} /\ last = Idle

NextFrac ==
    \/ FromFractionlessAmount(WholeNumbers, {"NOK", "JPY", "BHD", "XXX"},
                              FracOptions)
    \/ ToFractionlessAmount
    \/ Discard

SpecFrac == InitFrac /\ [][NextFrac]_vars

\* C14: fromFractionlessAmount(n, c, options) returns the Money of scale d
\* whose amount is n / 10^d, d being the decimals option or, without it, the
\* scale of c (1000 with decimals 3 is "1.000", 1000 NOK is "10.00")
C14_FromMinorHonorsDecimals ==
    (last.op = "fromFractionlessAmount" /\ last.kind = "money") =>
        LET n == last.args[1]
            d == OrElse(last.args[3].decimals,
                        currencyToDecimals(last.args[2]).v)
        IN  /\ getDecimals(last.val) = d
            /\ last.val.amount = Big(n.n, d)
            /\ (n = Big(1000, 0) /\ d = 3) => toString(last.val) = "1.000"
            /\ (n = Big(1000, 0) /\ last.args[2] = "NOK"
                    /\ last.args[3].decimals = None)
                   => toString(last.val) = "10.00"

\* the same without a decimals option
C14_FromMinorAtCurrencyScale ==
    (last.op = "fromFractionlessAmount" /\ last.kind = "money"
        /\ last.args[3].decimals = None) =>
        /\ last.val.amount = Big(last.args[1].n, getDecimals(last.val))
        /\ getDecimals(last.val) = currencyToDecimals(last.args[2]).v

\* C15: toFractionlessAmount returns the amount times 10^getDecimals(),
\* rounded to 0 decimals (Money.of(10, 'NOK', {decimals: 4}) gives 100000,
\* Money.of(10, 'NOK') gives 1000)
C15_ToMinorAtOwnScale ==
    (last.op = "toFractionlessAmount" /\ last.kind = "value") =>
        LET m == heap[last.recv]
            minor == BigMul(m.amount, BigPow10(getDecimals(m)))
        IN  last.val = Number(BigRound(minor, 0, OrElse(m.roundingMode, BigRM)))

\* the same with the scale of the currency for getDecimals()
C15_ToMinorAtCurrencyScale ==
    (last.op = "toFractionlessAmount" /\ last.kind = "value") =>
        LET m == heap[last.recv]
            minor == BigMul(m.amount,
                            BigPow10(currencyToDecimals(m.currency).v))
        IN  last.val = Number(BigRound(minor, 0, OrElse(m.roundingMode, BigRM)))

\* C16: the Money that fromFractionlessAmount(n, c, options) returns gives
\* n back from toFractionlessAmount, whatever the options
C16_MinorRoundTrip ==
    (last.op = "fromFractionlessAmount" /\ last.kind = "money") =>
        LET back == toFractionlessAmount(last.val)
        IN  back.ok /\ back.v = Number(last.args[1])

\* the same when the decimals option is absent or at least the scale of the
\* currency
C16_MinorRoundTripWide ==
    (last.op = "fromFractionlessAmount" /\ last.kind = "money"
        /\ getDecimals(last.val) >= currencyToDecimals(last.args[2]).v) =>
        LET back == toFractionlessAmount(last.val)
        IN  back.ok /\ back.v = Number(last.args[1])

(***************************************************************************)
(* Rounding a Money, and building a Money again from its own amount.       *)
(***************************************************************************)
RoundMoneys == MoneysOf(Amounts({0, 1, 2, 3}), {"NOK", "JPY"},
                        Options({None, Some(1), Some(3)}, AllModes))

InitRound == heap \in {<<m>> : m \in RoundMoneys} /\ last = Idle

NextRound ==
    \/ Round({0, 1, 2, 3}, AllModes)
    \/ Rebuild
    \/ Discard

SpecRound == InitRound /\ [][NextRound]_vars

\* C17: a Money that round(d, r) returned is returned unchanged by a second
\* round(d, r), and Money.of on the amount of a held Money with its currency,
\* decimals and rounding mode returns a Money of the same amount
C17_RoundingIdempotent ==
    /\ (last.op = "round") =>
          /\ last.kind = "money"
          /\ round(last.val, last.args[1], last.args[2]) = Ok(last.val)
    /\ (last.op = "of") =>
          /\ last.kind = "money"
          /\ last.val.amount = last.args[1]
          /\ \A i \in Objects :
                (heap[i].amount = last.args[1]
                    /\ heap[i].currency = last.args[2]
                    /\ heap[i].decimals = last.args[3].decimals
                    /\ heap[i].roundingMode = last.args[3].roundingMode)
                => /\ last.val.amount = heap[i].amount
                   /\ getDecimals(last.val) = getDecimals(heap[i])

\* 0.125 kept at 3 decimals was rounded at 1 decimal to 0.1: two digits
\* were dropped by the one call
C17_Witness ==
    /\ last.op = "round" /\ last.kind = "money"
    /\ heap[last.recv].amount.e = 3
    /\ last.args[1] = 1
    /\ last.val.amount.e <= 1
    /\ last.val.amount # heap[last.recv].amount

(***************************************************************************)
(* The decimals override: setDecimals, resetDecimals, and arithmetic on a  *)
(* Money that carries an override (10 decimals is the scale of a price).   *)
(***************************************************************************)
ScaleMoneys == MoneysOf(Amounts({3}), {"NOK", "JPY"},
                        Options({None, Some(0), Some(3), Some(10)},
                                {None, Some(0), Some(2)}))

InitScale == heap \in {<<m>> : m \in ScaleMoneys} /\ last = Idle

ScaleFactors == {Big(60, 0), Big(15, 1)}

NextScale ==
    \/ SetDecimals({0, 2, 4})
    \/ ResetDecimals
    \/ Multiply(ScaleFactors)
    \/ Add
    \/ SetTag({"isPrice"})
    \/ Keep
    \/ Discard

SpecScale == InitScale /\ [][NextScale]_vars

\* the Money r has the currency, rounding mode and tags of m, and its amount
\* is the amount of m rounded at scale S with the rounding mode of m
Rescaled(m, r, S) ==
    LET a == m.amount
    IN  /\ r.currency = m.currency
        /\ r.roundingMode = m.roundingMode
        /\ r.tags = m.tags
        /\ getDecimals(r) = S
        /\ r.amount.e <= S
        /\ IsRounding(a.n * Pow10(S - a.e), Pow10(a.e - S),
                      Scaled(r.amount, S), OrElse(m.roundingMode, BigRM))

\* C18: setDecimals(d) returns a Money of scale d and resetDecimals() one of
\* the scale of the currency, with the amount rounded again at that scale
\* (unchanged when the scale does not shrink) and the currency, rounding mode
\* and tags of the receiver; add and multiply on a Money with a decimals
\* override return a Money with the same override, not rounded to the scale
\* of the currency
C18_DecimalsOverride ==
    LET m == heap[last.recv]
    IN  /\ last.op = "setDecimals" =>
              /\ last.kind = "money"
              /\ last.val.decimals = Some(last.args[1])
              /\ Rescaled(m, last.val, last.args[1])
              /\ last.args[1] >= getDecimals(m) => last.val.amount = m.amount
        /\ last.op = "resetDecimals" =>
              /\ last.kind = "money"
              /\ last.val.decimals = None
              /\ Rescaled(m, last.val, CurrencyDigits[m.currency])
        /\ (last.op \in {"add", "multiply"} /\ last.kind = "money") =>
              /\ last.val.decimals = m.decimals
              /\ getDecimals(last.val) = getDecimals(m)
              /\ last.val.roundingMode = m.roundingMode
              /\ last.val.tags = m.tags
        /\ (last.op = "multiply"
                /\ BigMul(m.amount, last.args[1]).e <= getDecimals(m)) =>
              last.val.amount = BigMul(m.amount, last.args[1])
        /\ (last.op = "add" /\ last.kind = "money"
                /\ heap[last.arg].amount.e <= getDecimals(m)) =>
              BigCmp(last.val.amount,
                     BigPlus(m.amount, heap[last.arg].amount)) = 0

\* a price of 0.001 NOK at 10 decimals was multiplied by 60: the product
\* is 0.0600000000, not the 0.06 of the currency's two decimals
C18_Witness ==
    /\ last.op = "multiply" /\ last.kind = "money"
    /\ last.args = <<Big(60, 0)>>
    /\ heap[last.recv].currency = "NOK"
    /\ heap[last.recv].decimals = Some(10)
    /\ heap[last.recv].amount = Big(1, 3)
    /\ toString(last.val) = "0.0600000000"

\* a Money of three decimals was brought back to the two decimals of NOK and
\* its amount was rounded
C18_WitnessReset ==
    /\ last.op = "resetDecimals" /\ last.kind = "money"
    /\ heap[last.recv].decimals = Some(3)
    /\ last.val.amount # heap[last.recv].amount

(***************************************************************************)
(* Money.sum over lists of up to MaxParts of the two Moneys held.          *)
(***************************************************************************)
SumAmounts == {Big(1, 0), Big(5, 3), Big(-5, 3), Big(125, 2)}

SumOptions == Options({None, Some(3)}, {None, Some(0)})

SumMoneys ==
    LET plain == MoneysOf(SumAmounts, {"NOK", "JPY"}, SumOptions)
    IN  plain \cup {setTag(m, "isVat", TRUE).v : m \in {p \in plain : p.amount.n = 1}}

InitSum == heap \in {<<a, b>> : a, b \in SumMoneys} /\ last = Idle

SumArgOptions == Options({None, Some(0)}, {None, Some(3)})

SumCurrencies == {None, Some("NOK"), Some("JPY")}

NextSum ==
    \/ Sum(MaxParts, SumCurrencies, SumArgOptions)
    \/ Discard

SpecSum == InitSum /\ [][NextSum]_vars

\* the Moneys the last call of Money.sum was given
Summed == [k \in 1..Len(last.args[1]) |-> heap[last.args[1][k]]]

\* C19: Money.sum of a non-empty list of one currency returns the sum taken
\* from left to right, with the precision, rounding mode and tags of the first
\* item, whatever the currency and options arguments are; of an empty list
\* with a currency it returns zero in that currency built with the options;
\* it fails for an empty list without a currency and for a list that mixes
\* currencies
C19_Sum ==
    (last.op = "sum") =>
        LET ms   == Summed
            n    == Len(ms)
            cur  == last.args[2]
            opts == last.args[3]
            same == \A k \in 1..n : ms[k].currency = ms[1].currency
        IN  /\ (n = 0 /\ cur = None) =>
                  /\ last.kind = "throw"
                  /\ last.error = "Currency must be set when summing an empty list of money's"
            /\ (n = 0 /\ cur # None) =>
                  /\ last.kind = "money"
                  /\ isZero(last.val)
                  /\ last.val.currency = Get(cur)
                  /\ last.val.decimals = opts.decimals
                  /\ last.val.roundingMode = opts.roundingMode
                  /\ last.val.tags = DefaultTags
            /\ (n > 0 /\ ~same) =>
                  /\ last.kind = "throw"
                  /\ last.error = "Currencies must be the same"
            /\ (n > 0 /\ same) =>
                  /\ last.kind = "money"
                  /\ last.val.currency = ms[1].currency
                  /\ last.val.decimals = ms[1].decimals
                  /\ last.val.roundingMode = ms[1].roundingMode
                  /\ last.val.tags = ms[1].tags
                  /\ n = 1 => last.val = ms[1]
                  /\ n > 1 =>
                        Ok(last.val) = add(sum(SubSeq(ms, 1, n - 1), cur, opts).v, ms[n])
                  /\ (\A k \in 1..n : ms[k].amount.e <= getDecimals(ms[1])) =>
                        BigCmp(last.val.amount, AmountSum(ms)) = 0

\* three Moneys were summed into a first item of two decimals, and adding
\* them one by one gave another amount than rounding their exact sum once;
\* the options given asked for no decimals
C19_Witness ==
    /\ last.op = "sum" /\ last.kind = "money"
    /\ Len(last.args[1]) = 3
    /\ last.args[3].decimals = Some(0)
    /\ getDecimals(last.val) = 2
    /\ BigCmp(last.val.amount,
              BigRound(AmountSum(Summed), 2,
                       OrElse(last.val.roundingMode, BigRM))) # 0

(***************************************************************************)
(* Money.compare on three Moneys of several scales and tags.               *)
(***************************************************************************)
CompareAmounts == {Big(2, 0), Big(15, 1), Big(1005, 3), Big(-1005, 3), Big(-1, 0), Big(0, 0)}

CompareMoneys ==
    LET plain == MoneysOf(CompareAmounts, {"NOK"},
                          Options({None, Some(0), Some(3)}, {None}))
                 \cup MoneysOf({Big(2, 0), Big(-1, 0)}, {"JPY"}, {NoOptions})
    IN  plain \cup {setTag(m, "isVat", TRUE).v
                       : m \in {p \in plain : p.decimals = None}}

InitCompare == heap \in {<<a, b, c>> : a, b, c \in CompareMoneys} /\ last = Idle

NextCompare == Compare \/ Sort \/ Discard

SpecCompare == InitCompare /\ [][NextCompare]_vars

\* the order of two amounts as values: the digits aligned at the decimal
\* point are compared as integers
Order(a, b) ==
    LET e == Max(a.amount.e, b.amount.e)
    IN  Sign(Scaled(a.amount, e) - Scaled(b.amount, e))

\* C20: Money.compare of two Moneys of one currency is 1, 0 or -1 as the
\* first amount is above, equal to or below the second, whatever their
\* scales and tags; compare(a, b) = -compare(b, a); it is transitive; and
\* sorting a list of one currency with it gives the Moneys in ascending order
C20_Compare ==
    /\ (last.op = "compare"
          /\ heap[last.recv].currency = heap[last.arg].currency) =>
          LET a == heap[last.recv]
              b == heap[last.arg]
          IN  /\ last.kind = "value"
              /\ last.val = Order(a, b)
              /\ compare(b, a) = Ok(-last.val)
              /\ \A k \in Objects :
                    heap[k].currency = a.currency =>
                      LET bc == compare(b, heap[k]).v
                          ac == compare(a, heap[k]).v
                      IN  /\ (last.val <= 0 /\ bc <= 0) => ac <= 0
                          /\ (last.val <= 0 /\ bc <= 0
                                /\ (last.val < 0 \/ bc < 0)) => ac < 0
    /\ (last.op = "sort"
          /\ \A k \in Objects : heap[k].currency = heap[1].currency) =>
          /\ last.kind = "parts"
          /\ Len(last.val) = Len(heap)
          /\ \A k \in 1..(Len(last.val) - 1) :
                Order(last.val[k], last.val[k + 1]) <= 0
          /\ \A m \in CompareMoneys :
                Cardinality({k \in Objects : heap[k] = m})
                = Cardinality({k \in Objects : last.val[k] = m})

\* 2 NOK was compared with a tagged 1.5 NOK of three decimals: the answer is
\* 1 although 15 are the digits of the smaller amount
C20_Witness ==
    /\ last.op = "compare" /\ last.kind = "value"
    /\ heap[last.recv].amount = Big(2, 0)
    /\ heap[last.arg].amount = Big(15, 1)
    /\ heap[last.recv].tags # heap[last.arg].tags
    /\ getDecimals(heap[last.recv]) # getDecimals(heap[last.arg])
    /\ last.val = 1

\* three Moneys held in descending order were sorted
C20_WitnessSort ==
    /\ last.op = "sort" /\ last.kind = "parts"
    /\ Order(heap[1], heap[2]) > 0 /\ Order(heap[2], heap[3]) > 0
    /\ last.val = <<heap[3], heap[2], heap[1]>>

(***************************************************************************)
(* Tags: every operation that derives a Money, on two Moneys built with    *)
(* and without tags (sku is a tag of the caller's own).                    *)
(***************************************************************************)
TagSets == {<<>>,
            "includesVat" :> TRUE,
            ("isVat" :> TRUE) @@ ("sku" :> TRUE),
            ("includesVat" :> TRUE) @@ ("isPrice" :> TRUE)}

TagOptions == {[decimals |-> None, roundingMode |-> None, tags |-> t] : t \in TagSets}

TagAmounts == {Big(10, 0), Big(-125, 2)}

TagMoneys == MoneysOf(TagAmounts, {"NOK", "JPY"}, TagOptions)

InitTags == heap \in {<<a, b>> : a, b \in TagMoneys} /\ last = Idle

TagDatas == {[amount |-> Some(Big(25, 3))],
             [tags |-> "isVat" :> TRUE],
             [tags |-> <<>>]}

TagWeights == {<<Big(1, 0), Big(1, 0), Big(1, 0)>>, <<Big(0, 0), Big(2, 0), Big(1, 0)>>}

TagPercents == {Big(25, 0), Big(0, 0)}

NextTags ==
    \/ Of(TagAmounts, {"NOK"}, TagOptions)
    \/ Add
    \/ Subtract
    \/ Multiply({Big(15, 1)})
    \/ Divide({Big(3, 0)})
    \/ Round({0}, {None, Some(3)})
    \/ AbsOp
    \/ SetDecimals({1})
    \/ ResetDecimals
    \/ ToCurrency({"JPY"}, {Big(861, 2)}, {Big(1, 0)})
    \/ DistributeBy(TagWeights)
    \/ DistributeByJs(TagWeights)
    \/ SetTag({"includesVat", "isVat", "sku"})
    \/ Merge(TagDatas)
    \/ AddVat(TagPercents)
    \/ RemoveVat(TagPercents)
    \/ GetVat(TagPercents)
    \/ Discard

SpecTags == InitTags /\ [][NextTags]_vars

Deriving == {"add", "subtract", "multiply", "divide", "round", "abs",
             "setDecimals", "resetDecimals", "toCurrency", "distributeBy",
             "distributeByJs", "setTag", "merge", "addVat", "removeVat",
             "getVat"}

\* the Moneys the last call returned
Derived ==
    CASE last.kind = "money" -> {last.val}
      [] last.kind = "parts" -> {last.val[k] : k \in 1..Len(last.val)}
      [] OTHER -> {}

\* getVat went through removeVat (the argument, or the tag when it is omitted)
VatRemoved ==
    OrElse(last.args[2], getTag(heap[last.recv], "includesVat", FALSE))

\* the tags the last call names: the tag of setTag, includesVat for addVat
\* and removeVat, isVat for getVat (and includesVat when it removes the VAT),
\* the tags in the data of merge
Overridden ==
    CASE last.op = "setTag" -> {last.args[1]}
      [] last.op \in {"addVat", "removeVat"} -> {"includesVat"}
      [] last.op = "getVat" ->
            {"isVat"} \cup (IF VatRemoved THEN {"includesVat"} ELSE {})
      [] last.op = "merge" /\ "tags" \in DOMAIN last.args[1] ->
            DOMAIN last.args[1].tags
      [] OTHER -> {}

\* every Money the last call returned has the tags of the receiver, but for
\* the tags the call names
Inherited ==
    \A r \in Derived :
        \A t \in DOMAIN heap[last.recv].tags \ Overridden :
            t \in DOMAIN r.tags /\ r.tags[t] = heap[last.recv].tags[t]

\* C21: every Money derived from a Money m (by add, subtract, multiply,
\* divide, round, abs, setDecimals, resetDecimals, toCurrency, distributeBy,
\* setTag, merge, addVat, removeVat, getVat) carries every tag of m with the
\* value it has in m, except the tags the operation names; the tags of a
\* binary operation are those of the receiver; a Money built without tags has
\* includesVat = false and isVat = false
C21_TagsPropagate ==
    /\ last.op \in Deriving => Inherited
    /\ (last.op = "of" /\ last.kind = "money" /\ last.args[3].tags = <<>>) =>
          /\ getTag(last.val, "includesVat", {}) = FALSE
          /\ getTag(last.val, "isVat", {}) = FALSE

\* the same for every call but a merge whose data has a tags field
C21_TagsPropagateButMergeOfTags ==
    /\ (last.op \in Deriving
          /\ ~(last.op = "merge" /\ "tags" \in DOMAIN last.args[1])) => Inherited
    /\ (last.op = "of" /\ last.kind = "money" /\ last.args[3].tags = <<>>) =>
          /\ getTag(last.val, "includesVat", {}) = FALSE
          /\ getTag(last.val, "isVat", {}) = FALSE

\* a Money tagged includesVat was merged with the one tag isVat, and the
\* Money returned is tagged includesVat = false
C21_MergeResetsTags ==
    /\ last.op = "merge" /\ last.kind = "money"
    /\ last.args[1] = [tags |-> "isVat" :> TRUE]
    /\ heap[last.recv].tags["includesVat"] = TRUE
    /\ last.val.tags["includesVat"] = FALSE

\* the call op(args) of the last step made again on the receiver m, with
\* the argument other where the operation takes a Money
Call(op, m, other, args) ==
    CASE op = "add" -> add(m, other)
      [] op = "subtract" -> subtract(m, other)
      [] op = "multiply" -> multiply(m, args[1])
      [] op = "divide" -> divide(m, args[1])
      [] op = "round" -> round(m, args[1], args[2])
      [] op = "abs" -> abs(m)
      [] op = "setDecimals" -> setDecimals(m, args[1])
      [] op = "resetDecimals" -> resetDecimals(m)
      [] op = "toCurrency" -> toCurrency(m, args[1], args[2], args[3])
      [] op = "setTag" -> setTag(m, args[1], args[2])
      [] op = "merge" -> merge(m, args[1])
      [] op = "addVat" -> addVat(m, args[1])
      [] op = "removeVat" -> removeVat(m, args[1])
      [] op = "getVat" -> getVat(m, args[1], args[2])
      [] op = "distributeBy" ->
            Bind(distributeBy(m, args), LAMBDA r : Ok(r.parts))
      [] op = "distributeByJs" ->
            Bind(distributeByJs(m, args), LAMBDA r : Ok(r.parts))

\* the amounts in what a call returned (the error when it threw)
AmountsIn(r) ==
    IF ~r.ok THEN <<r.error>>
    ELSE IF DOMAIN r.v = DOMAIN heap[1] THEN <<r.v.amount>>
    ELSE [k \in 1..Len(r.v) |-> r.v[k].amount]

\* the Moneys that differ from m in their tags only
Retagged(m) == {[m EXCEPT !.tags = t @@ DefaultTags] : t \in TagSets}

\* the last call gives the same amounts on every Money that differs from the
\* receiver in its tags only, and with every argument that differs from the
\* argument in its tags only
TagBlind ==
    LET other == IF last.arg = 0 THEN heap[1] ELSE heap[last.arg]
        done  == AmountsIn(Call(last.op, heap[last.recv], other, last.args))
    IN  \A m \in Retagged(heap[last.recv]), o \in Retagged(other) :
            AmountsIn(Call(last.op, m, o, last.args)) = done

\* C22: tags never influence numeric results: on two Moneys that are equal
\* in amount, currency, decimals and rounding mode and differ in their tags
\* only, every operation called with the same arguments (arithmetic,
\* rounding, conversion, distribution, addVat, removeVat, getVat with its
\* includesVat argument omitted) returns equal amounts
C22_TagsNeverInfluence == last.op \in Deriving => TagBlind

\* the same for every call but a getVat whose includesVat argument is omitted
C22_TagBlindButGetVat ==
    (last.op \in Deriving /\ ~(last.op = "getVat" /\ last.args[2] = None)) =>
        TagBlind

\* getVat(25) without the argument returned 2 on 10 JPY tagged includesVat:
\* one fifth of the amount, where it is a quarter on 10 JPY without the tag
C22_GetVatReadsTag ==
    /\ last.op = "getVat" /\ last.kind = "money"
    /\ last.args = <<Big(25, 0), None>>
    /\ heap[last.recv].currency = "JPY"
    /\ heap[last.recv].amount = Big(10, 0)
    /\ heap[last.recv].tags["includesVat"] = TRUE
    /\ last.val.amount = Big(2, 0)
    /\ getVat(setTag(heap[last.recv], "includesVat", FALSE).v,
              Big(25, 0), None).v.amount = Big(3, 0)

(***************************************************************************)
(* Currency codes: construction and conversion with known codes, the       *)
(* reserved code UNKNOWN and a code the package does not know ("XXX").     *)
(***************************************************************************)
CurrencyCodes == {"NOK", "JPY", "UNKNOWN", "XXX"}

CurrencyAmounts == {Big(1, 0), Big(125, 2)}

CurrencyOptions == Options({None, Some(3)}, {None})

NextCurrency ==
    \/ Of(CurrencyAmounts, CurrencyCodes, CurrencyOptions)
    \/ FromPrice(CurrencyAmounts, CurrencyCodes, {NoOptions})
    \/ ToCurrency(CurrencyCodes, {Big(2, 0)}, {Big(1, 0)})
    \/ SetDecimals({3})
    \/ ResetDecimals
    \/ Add
    \/ Keep
    \/ Discard

SpecCurrency == Init /\ [][NextCurrency]_vars

Supported(currency) == currency \in DOMAIN CurrencyDigits \cup {"UNKNOWN"}

Unsupported ==
    /\ last.kind = "throw"
    /\ last.error = "Currency " \o last.args[2] \o " is not supported"

\* C23: constructing a Money whose currency code is not a known currency
\* fails with the unsupported-currency error, except for the reserved code
\* UNKNOWN, which is accepted and gives a scale of 2; a known currency gives
\* its registered scale (NOK 2, JPY 0); no Money with an unsupported currency
\* code other than UNKNOWN is ever constructed or returned by an operation
C23_CurrencyResolution ==
    /\ (last.op = "of" /\ ~Supported(last.args[2])) => Unsupported
    /\ (last.op = "of" /\ Supported(last.args[2])) =>
          /\ last.kind = "money"
          /\ last.val.currency = last.args[2]
          /\ last.args[3].decimals = None =>
                getDecimals(last.val) =
                    (CASE last.args[2] = "NOK" -> 2
                       [] last.args[2] = "JPY" -> 0
                       [] last.args[2] = "UNKNOWN" -> 2)
    /\ \A m \in Held : Supported(m.currency)

\* the same for a construction without a decimals option and for the held
\* Moneys without a decimals override
C23_ResolvedWithoutDecimals ==
    /\ (last.op = "of" /\ ~Supported(last.args[2])
          /\ last.args[3].decimals = None) => Unsupported
    /\ (last.op = "of" /\ Supported(last.args[2])) =>
          /\ last.kind = "money"
          /\ last.val.currency = last.args[2]
          /\ last.args[3].decimals = None =>
                getDecimals(last.val) =
                    (CASE last.args[2] = "NOK" -> 2
                       [] last.args[2] = "JPY" -> 0
                       [] last.args[2] = "UNKNOWN" -> 2)
    /\ \A m \in Held : m.decimals = None => Supported(m.currency)

\* Money.of(1.25, 'XXX', { decimals: 3 }) returned a Money
C23_UnsupportedBuilt ==
    /\ last.op = "of" /\ last.kind = "money"
    /\ last.args[2] = "XXX"
    /\ last.val.currency = "XXX"
    /\ toString(last.val) = "1.250"

\* a NOK Money with a decimals override was converted to the code XXX
C23_UnsupportedReturned ==
    /\ last.op = "toCurrency" /\ last.kind = "money"
    /\ heap[last.recv].currency = "NOK"
    /\ last.val.currency = "XXX"

(***************************************************************************)
(* VAT: addVat, removeVat and getVat on one Money, for several percentages *)
(* and every rounding mode.                                                *)
(***************************************************************************)
VatMoneys == MoneysOf(Amounts({0, 2}), {"NOK", "JPY"},
                      Options({None, Some(1)}, AllModes))

InitVat == heap \in {<<m>> : m \in VatMoneys} /\ last = Idle

VatPercents == {Big(0, 0), Big(7, 0), Big(25, 0), Big(125, 1), Big(30, 0), Big(100, 0)}

NextVat ==
    \/ AddVat(VatPercents)
    \/ RemoveVat(VatPercents)
    \/ GetVat(VatPercents)
    \/ Discard

SpecVat == InitVat /\ [][NextVat]_vars

\* the last call was n.getVat(p, false): the VAT of the net amount n
VatOfNet == last.op = "getVat" /\ last.args[2] = Some(FALSE)

\* n.addVat(p).getVat(p, includesVat) for the receiver and the percentage of
\* the last call
VatOfGross(includesVat) ==
    getVat(addVat(heap[last.recv], last.args[1]).v, last.args[1], includesVat)

\* the rounding mode of the receiver rounds to the nearest value
RoundsToNearest == OrElse(heap[last.recv].roundingMode, BigRM) \in {1, 2}

\* C24 as stated: for every Money n and every percentage p >= 0,
\* n.getVat(p, false) equals n.addVat(p).getVat(p, true) and
\* n.addVat(p).getVat(p), and is tagged isVat
C24_VatNetOrGross ==
    VatOfNet =>
        /\ last.kind = "money"
        /\ last.val.tags["isVat"] = TRUE
        /\ VatOfGross(Some(TRUE)).v.amount = last.val.amount
        /\ VatOfGross(None).v.amount = last.val.amount

\* C24, amended: n.addVat(p).getVat(p) with the argument omitted equals
\* n.addVat(p).getVat(p, true), and both are tagged isVat like
\* n.getVat(p, false); they have the amount of n.getVat(p, false) when the
\* rounding mode of n rounds to the nearest value (half away from zero, the
\* default, or half to even)
C24_VatNetOrGrossNearest ==
    VatOfNet =>
        /\ last.kind = "money"
        /\ last.val.tags["isVat"] = TRUE
        /\ VatOfGross(None) = VatOfGross(Some(TRUE))
        /\ VatOfGross(None).ok
        /\ VatOfGross(None).v.tags["isVat"] = TRUE
        /\ RoundsToNearest => VatOfGross(None).v.amount = last.val.amount

\* the VAT of 0.10 NOK at 25 % was computed: 0.025 becomes 0.03, and the
\* gross amount 0.13 gives 0.03 as well
C24_Witness ==
    /\ VatOfNet /\ last.kind = "money"
    /\ heap[last.recv].amount = Big(10, 2)
    /\ heap[last.recv].roundingMode = None
    /\ last.args[1] = Big(25, 0)
    /\ last.val.amount = Big(3, 2)
    /\ addVat(heap[last.recv], last.args[1]).v.amount = Big(13, 2)
    /\ VatOfGross(None).v.amount = Big(3, 2)

\* the last call was m.addVat(p); back is m.addVat(p).removeVat(p)
VatBack == removeVat(last.val, last.args[1])

\* C29 as stated: for every Money m and every percentage p >= 0,
\* m.addVat(p).removeVat(p) has the amount, currency and scale of m, with
\* includesVat true after addVat and false after removeVat
C29_RemoveUndoesAdd ==
    last.op = "addVat" =>
        /\ last.kind = "money"
        /\ last.val.tags["includesVat"] = TRUE
        /\ VatBack.ok
        /\ VatBack.v.tags["includesVat"] = FALSE
        /\ VatBack.v.currency = heap[last.recv].currency
        /\ getDecimals(VatBack.v) = getDecimals(heap[last.recv])
        /\ VatBack.v.amount = heap[last.recv].amount

\* C29, amended: m.addVat(p).removeVat(p) has the currency and scale of m,
\* with includesVat true after addVat and false after removeVat; it has the
\* amount of m when the rounding mode of m rounds to the nearest value (half
\* away from zero, the default, or half to even)
C29_RemoveUndoesAddNearest ==
    last.op = "addVat" =>
        /\ last.kind = "money"
        /\ last.val.tags["includesVat"] = TRUE
        /\ VatBack.ok
        /\ VatBack.v.tags["includesVat"] = FALSE
        /\ VatBack.v.currency = heap[last.recv].currency
        /\ getDecimals(VatBack.v) = getDecimals(heap[last.recv])
        /\ RoundsToNearest => VatBack.v.amount = heap[last.recv].amount

\* 0.07 NOK with 7 % is 0.0749, 0.07 after rounding, and removing the VAT
\* from 0.07 gives 0.0654..., 0.07 again
C29_Witness ==
    /\ last.op = "addVat" /\ last.kind = "money"
    /\ heap[last.recv].amount = Big(7, 2)
    /\ heap[last.recv].roundingMode = None
    /\ getDecimals(heap[last.recv]) = 2
    /\ last.args[1] = Big(7, 0)
    /\ last.val.amount = Big(7, 2)
    /\ VatBack.v.amount = Big(7, 2)

(***************************************************************************)
(* The order in which the loop of distributeBy hands out the rest.         *)
(***************************************************************************)
OrderMoneys == DistMoneys \cup MoneysOf({Big(67, 0)}, {"JPY"}, {NoOptions})

InitOrder == heap \in {<<m>> : m \in OrderMoneys} /\ last = Idle

OrderWeights == Weights \cup SignWeights \cup {Ones(4)}

NextOrder ==
    \/ DistributeBy(OrderWeights)
    \/ DistributeByJs(OrderWeights)
    \/ Discard

SpecOrder == InitOrder /\ [][NextOrder]_vars

\* the rest of the last distribution in smallest units, without its sign
RestUnits ==
    LET p == provisional(heap[last.recv], last.args)
    IN  Abs(Scaled(p.rest.amount, getDecimals(heap[last.recv])))

\* index i has a weight that is not zero, and is among the first k of these
AmongFirst(k, i) ==
    /\ last.args[i].n # 0
    /\ Cardinality({j \in 1..i : last.args[j].n # 0}) <= k

\* the first RestUnits indices of non-zero weight have their provisional
\* part and one smallest unit, signed like the rest; every other part is the
\* provisional part
ForwardOrder ==
    LET p == provisional(heap[last.recv], last.args)
    IN  \A i \in 1..Len(last.args) :
            last.val[i].amount =
                IF AmongFirst(RestUnits, i)
                THEN BigPlus(p.parts[i].amount, p.smallestUnit.amount)
                ELSE p.parts[i].amount

\* the amounts of the parts of the last distribution, as strings
PartStrings == [i \in 1..Len(last.val) |-> toString(last.val[i])]

OrderExamples ==
    /\ (heap[1] = of(Some(Big(1, 0)), "NOK", NoOptions).v /\ last.args = Ones(3))
          => PartStrings = <<"0.34", "0.33", "0.33">>
    /\ (heap[1] = of(Some(Big(67, 0)), "JPY", NoOptions).v /\ last.args = Ones(4))
          => PartStrings = <<"16", "17", "17", "17">>

\* C25: in distributeBy, when the rest after rounding is k smallest units,
\* exactly the first k indices with a non-zero weight, in increasing order
\* from index 0, receive one unit each, signed like the rest, and every other
\* part keeps its provisional value round(amount * w_i / totalWeight, scale);
\* 1.00 in 3 equal parts is [0.34, 0.33, 0.33] and 67 JPY in 4 parts is
\* [16, 17, 17, 17]
C25_ForwardOrder ==
    (IsDistribute /\ last.kind = "parts") => ForwardOrder /\ OrderExamples

\* the same for the compiled module alone
C25_ForwardOrderJs ==
    (last.op = "distributeByJs" /\ GoodWeights(last.args)) =>
        last.kind = "parts" /\ ForwardOrder /\ OrderExamples

\* the same for src/src/index.ts when no weight is zero
C25_ForwardOrderNoZero ==
    (last.op = "distributeBy" /\ GoodWeights(last.args)
        /\ \A i \in 1..Len(last.args) : last.args[i].n # 0) =>
        last.kind = "parts" /\ ForwardOrder /\ OrderExamples

\* src/src/index.ts split 1 JPY by the weights 0, 1, 1: the unit of the rest
\* went to index 0, whose weight is zero
C25_UnitToZeroWeight ==
    /\ last.op = "distributeBy" /\ last.kind = "parts"
    /\ last.args = <<Big(0, 0), Big(1, 0), Big(1, 0)>>
    /\ heap[1] = of(Some(Big(1, 0)), "JPY", NoOptions).v
    /\ PartStrings = <<"-1", "1", "1">>

\* the compiled module split 67 JPY in 4 parts
C25_SixtySeven ==
    /\ last.op = "distributeByJs" /\ last.kind = "parts"
    /\ heap[1].amount = Big(67, 0) /\ last.args = Ones(4)
    /\ RestUnits = 1
    /\ PartStrings = <<"16", "17", "17", "17">>

(***************************************************************************)
(* The loop of distributeBy as the engine runs it: the call computes the   *)
(* provisional parts, the rest and the smallest unit, and then every step  *)
(* tests the rest and runs the body of the loop once.  The engine keeps    *)
(* running a loop it has entered (weak fairness of the steps).             *)
(***************************************************************************)
LoopAmounts == {Big(n, 0) : n \in -2..2}

LoopMoneys == MoneysOf(LoopAmounts, {"NOK"},
                       Options({None, Some(BigDP), Some(BigDP + 1)},
                               {None, Some(0)}))

InitLoop == heap \in {<<m>> : m \in LoopMoneys} /\ last = Idle

\* the call up to "let i = 0"
EnterLoop(op, weightLists) == \E r \in Objects, w \in weightLists :
    /\ last.kind = "none"
    /\ heap' = heap
    /\ last' = IF validWeights(w).ok
               THEN [error |-> "", op |-> op, recv |-> r, arg |-> 0,
                     args |-> w, kind |-> "loop",
                     val |-> provisional(heap[r], w) @@ [index |-> 0]]
               ELSE [error |-> validWeights(w).error, op |-> op, recv |-> r,
                     arg |-> 0, args |-> w, kind |-> "throw", val |-> <<>>]

\* one test and one pass of the loop of src/src/index.ts, or the return
LoopStep ==
    /\ last.kind = "loop" /\ last.op = "distributeBy"
    /\ heap' = heap
    /\ LET s == last.val
       IN  last' =
             IF isZero(s.rest)
             THEN [last EXCEPT !.kind = "parts", !.val = s.parts]
             ELSE IF s.index >= Len(s.parts)
             THEN [last EXCEPT !.error = "TypeError", !.kind = "throw",
                               !.val = <<>>]
             ELSE [last EXCEPT !.val =
                     [s EXCEPT !.parts[s.index + 1] = add(@, s.smallestUnit).v,
                               !.rest = subtract(@, s.smallestUnit).v,
                               !.index = @ + 1]]

\* one test and one pass of the loop of the compiled module, or the return
LoopStepJs ==
    /\ last.kind = "loop" /\ last.op = "distributeByJs"
    /\ heap' = heap
    /\ LET s == last.val
           next == (s.index + 1) % Len(last.args)
       IN  last' =
             IF isZero(s.rest)
             THEN [last EXCEPT !.kind = "parts", !.val = s.parts]
             ELSE IF last.args[s.index + 1].n # 0
             THEN [last EXCEPT !.val =
                     [s EXCEPT !.parts[s.index + 1] = add(@, s.smallestUnit).v,
                               !.rest = subtract(@, s.smallestUnit).v,
                               !.index = next]]
             ELSE [last EXCEPT !.val = [s EXCEPT !.index = next]]

InLoop == last.kind = "loop"

LoopEnded == last.kind \in {"parts", "throw"}

NextLoop ==
    \/ EnterLoop("distributeBy", DistWeights)
    \/ EnterLoop("distributeByJs", DistWeights)
    \/ LoopStep
    \/ LoopStepJs
    \/ (LoopEnded /\ Discard)

SpecLoop ==
    InitLoop /\ [][NextLoop]_vars /\ WF_vars(LoopStep) /\ WF_vars(LoopStepJs)

\* the rest is a whole number of smallest units (that are not zero)
RestWhole ==
    InLoop =>
        LET unit == last.val.smallestUnit.amount
            rest == last.val.rest.amount
        IN  /\ BigSign(unit) # 0
            /\ BigDiv(rest, unit).e <= 0

\* a pass that hands out a unit leaves a rest that is one smallest unit
\* nearer to zero and not beyond it
TowardZero ==
    (InLoop /\ last'.kind = "loop" /\ last'.val.parts # last.val.parts) =>
        LET unit == BigAbs(last.val.smallestUnit.amount)
            rest == BigAbs(last.val.rest.amount)
        IN  /\ BigSign(unit) > 0
            /\ BigCmp(BigAbs(last'.val.rest.amount), BigMinus(rest, unit)) = 0
            /\ BigSign(last'.val.rest.amount)
                   \in {0, BigSign(last.val.rest.amount)}

\* C26: distributeBy terminates for every valid input: the loop it has
\* entered ends, the parts are returned or the call fails; it never runs for
\* ever
C26_Terminates == InLoop ~> LoopEnded

\* what the claim rests on: the rest is always a whole number of smallest
\* units, and every step of the loop moves it one smallest unit toward zero
\* without passing zero
C26_StepsTowardZero == []RestWhole /\ [][TowardZero]_vars

\* the same for a Money of at most Big.DP decimals
C26_TerminatesUpToDP ==
    /\ [](getDecimals(heap[1]) <= BigDP => RestWhole)
    /\ [][getDecimals(heap[1]) <= BigDP => TowardZero]_vars
    /\ (InLoop /\ getDecimals(heap[1]) <= BigDP) ~> LoopEnded

\* the same for the loop of src/src/index.ts alone, whose index only grows
C26_IndexEnds == (InLoop /\ last.op = "distributeBy") ~> LoopEnded

\* the steps return what the call returns
C26_StepsAgree ==
    (last.kind = "parts" /\ last.op = "distributeBy" =>
        last.val = distributeBy(heap[last.recv], last.args).v.parts)
    /\ (last.kind = "parts" /\ last.op = "distributeByJs" =>
        last.val = distributeByJs(heap[last.recv], last.args).v.parts)

\* the compiled loop is at index 0 again, with the rest of 10^-20 it began
\* with and a smallest unit of zero: 1 NOK at 21 decimals in three parts
C26_Spinning ==
    /\ InLoop /\ last.op = "distributeByJs"
    /\ getDecimals(heap[1]) = BigDP + 1
    /\ heap[1].amount = Big(1, 0)
    /\ last.args = Ones(3)
    /\ isZero(last.val.smallestUnit)
    /\ last.val.rest.amount = Big(1, BigDP)
    /\ last.val.index = 0
    /\ last.val.parts = provisional(heap[1], last.args).parts

(***************************************************************************)
(* How evenly distributeBy and distribute spread the rest.                 *)
(***************************************************************************)
NextEven ==
    \/ DistributeBy(OrderWeights)
    \/ DistributeByJs(OrderWeights)
    \/ Distribute(Counts)
    \/ DistributeJs(Counts)
    \/ Discard

SpecEven == InitDist /\ [][NextEven]_vars

IsSplit == last.op \in {"distributeBy", "distributeByJs", "distribute", "distributeJs"}

\* the weights of the last distribution
SplitWeights ==
    IF last.op \in {"distribute", "distributeJs"} THEN Ones(last.args[1].n)
    ELSE last.args

\* the smallest unit of the Money that was distributed
UnitOf(m) == Big(1, getDecimals(m))

\* two parts of equal non-zero weights differ by at most one smallest unit
EqualWeightsClose ==
    \A i, j \in 1..Len(last.val) :
        (SplitWeights[i] = SplitWeights[j] /\ SplitWeights[i].n # 0) =>
            BigCmp(BigAbs(BigMinus(last.val[i].amount, last.val[j].amount)),
                   UnitOf(heap[last.recv])) <= 0

\* every part is at most one smallest unit away from its provisional share
NearProvisional ==
    LET p == provisional(heap[last.recv], SplitWeights)
    IN  \A i \in 1..Len(last.val) :
            BigCmp(BigAbs(BigMinus(last.val[i].amount, p.parts[i].amount)),
                   UnitOf(heap[last.recv])) <= 0

\* the amount in smallest units times weight i, to be divided by the total
ShareUnits(i) ==
    Scaled(heap[last.recv].amount, getDecimals(heap[last.recv]))
        * SplitWeights[i].n

\* every share amount * w_i / totalWeight is a whole number of smallest
\* units (the weights of the model are whole numbers)
SharesRepresentable ==
    \A i \in 1..Len(SplitWeights) :
        ShareUnits(i) % BigSum(SplitWeights, 1).n = 0

ExactShares ==
    \A i \in 1..Len(last.val) :
        last.val[i].amount =
            Big(ShareUnits(i) \div BigSum(SplitWeights, 1).n,
                getDecimals(heap[last.recv]))

\* C27: in the result of distributeBy and of distribute(n), two parts whose
\* weights are equal and non-zero differ by at most one smallest unit, every
\* part differs from its provisional rounded share by at most one smallest
\* unit, and when every share amount * w_i / totalWeight is representable at
\* the scale every part equals its share
C27_SpreadEvenly ==
    (IsSplit /\ last.kind = "parts") =>
        /\ EqualWeightsClose
        /\ NearProvisional
        /\ SharesRepresentable => ExactShares

C27_EqualWeightsClose == (IsSplit /\ last.kind = "parts") => EqualWeightsClose

C27_NearProvisional == (IsSplit /\ last.kind = "parts") => NearProvisional

\* the third part of the claim for the Moneys that round to the nearest
C27_ExactSharesNearest ==
    (IsSplit /\ last.kind = "parts" /\ SharesRepresentable
        /\ OrElse(heap[last.recv].roundingMode, BigRM) \in {1, 2}) => ExactShares

(***************************************************************************)
(* Prices and quantities.                                                  *)
(***************************************************************************)
\* 0.0005, 1.25, -0.125, 0.00000001
Prices == {Big(5, 4), Big(125, 2), Big(-125, 3), Big(1, 8)}

\* 30, 3, 1, 0, -2, 0.5
Quantities == {Big(30, 0), Big(3, 0), Big(1, 0), Big(0, 0), Big(-2, 0), Big(5, 1)}

\* 0.0099999999, -0.0099999999
FinePrices == {Big(99999999, 10), Big(-99999999, 10)}

\* 0.5, 1
FineQuantities == {Big(5, 1), Big(1, 0)}

PriceCodes == {"NOK", "JPY"}

PriceOptions == Options({None}, {None, Some(0), Some(2)})

NextPrice ==
    \/ FromPrice(Prices \cup FinePrices, PriceCodes, PriceOptions)
    \/ FromPriceAndQuantity(Prices, Quantities, PriceCodes, PriceOptions)
    \/ FromPriceAndQuantity(FinePrices, FineQuantities, {"NOK"}, PriceOptions)
    \/ Discard

SpecPrice == Init /\ [][NextPrice]_vars

\* fromPrice without a decimals option keeps 10 decimals and the price
PriceKept ==
    (last.op = "fromPrice" /\ last.kind = "money") =>
        /\ getDecimals(last.val) = DEFAULT_DECIMALS_PRICE
        /\ BigCmp(last.val.amount, last.args[1]) = 0

Totalled == last.op = "fromPriceAndQuantity" /\ last.kind = "money"

\* price * quantity of the last call, exactly
Product == BigMul(last.args[1], last.args[2])

\* the product rounded once to the currency's scale
RoundedOnce ==
    BigRound(Product, currencyToDecimals(last.args[3]).v,
             OrElse(last.args[4].roundingMode, BigRM))

\* the product has no more than the 10 decimals of a price
WithinPrice == BigCmp(BigRound(Product, DEFAULT_DECIMALS_PRICE, BigRM), Product) = 0

C28_RoundedTwice ==
    /\ Totalled
    /\ last.args = <<Big(99999999, 10), Big(5, 1), "NOK", NoOptions>>
    /\ last.val.amount = Big(1, 2)

(***************************************************************************)
(* The greatest and the least of a list.                                   *)
(***************************************************************************)
\* -1, 0.5 and 2 NOK at 2 and at 3 decimals, and 2 JPY
MaxMoneys ==
    MoneysOf({Big(-1, 0), Big(5, 1), Big(2, 0)}, {"NOK"},
             Options({None, Some(3)}, {None}))
        \cup MoneysOf({Big(2, 0)}, {"JPY"}, {NoOptions})

InitMax == heap \in {<<a, b, c>> : a, b, c \in MaxMoneys} /\ last = Idle

NextMax == MaxOf(MaxParts) \/ MinOf(MaxParts) \/ Discard

SpecMax == InitMax /\ [][NextMax]_vars

\* the Moneys of the list of the last call, in its order
Listed == [k \in 1..Len(last.args[1]) |-> heap[last.args[1][k]]]

OneCurrency == \A j, k \in 1..Len(Listed) : Listed[j].currency = Listed[k].currency

\* the object returned is the one at a place k of the list, no element is
\* beyond it in the direction sgn (1: greater, -1: less) and none before it
\* has its amount
Extreme(sgn) ==
    \E k \in 1..Len(Listed) :
        /\ last.args[1][k] = last.val
        /\ \A j \in 1..Len(Listed) :
               sgn * BigCmp(Listed[j].amount, Listed[k].amount) <= 0
        /\ \A j \in 1..(k - 1) :
               BigCmp(Listed[j].amount, Listed[k].amount) # 0

\* C30: Money.max returns an element of the list whose amount is >= the
\* amount of every element and Money.min one whose amount is <= every
\* element, the earliest in the list among those of that amount; both throw
\* for an empty list and for a list that mixes currencies
C30_MaxMin ==
    /\ (last.op = "max" /\ last.kind = "ref") => Extreme(1)
    /\ (last.op = "min" /\ last.kind = "ref") => Extreme(-1)
    /\ (last.op \in {"max", "min"} /\ Len(Listed) = 0) =>
           /\ last.kind = "throw"
           /\ last.error = "Need at least one money for comparison"
    /\ (last.op \in {"max", "min"} /\ ~OneCurrency) =>
           /\ last.kind = "throw"
           /\ last.error = "Currencies must be the same"
    /\ (last.op \in {"max", "min"} /\ Len(Listed) > 0 /\ OneCurrency) =>
           last.kind = "ref"

\* max of a list whose first two elements are different objects of the
\* greatest amount, the third being less: the first is returned
C30_Witness ==
    /\ last.op = "max" /\ last.kind = "ref"
    /\ Len(Listed) = 3
    /\ last.args[1][1] # last.args[1][2]
    /\ Listed[1] # Listed[2]
    /\ BigCmp(Listed[1].amount, Listed[2].amount) = 0
    /\ BigCmp(Listed[3].amount, Listed[1].amount) < 0
    /\ last.val = last.args[1][1]

\* min of a list whose last two elements are different objects of the least
\* amount: the second of the list is returned
C30_WitnessMin ==
    /\ last.op = "min" /\ last.kind = "ref"
    /\ Len(Listed) = 3
    /\ last.args[1][2] # last.args[1][3]
    /\ BigCmp(Listed[2].amount, Listed[3].amount) = 0
    /\ BigCmp(Listed[1].amount, Listed[2].amount) > 0
    /\ last.val = last.args[1][2]

====
